---- MODULE Spec2Model ----
(***************************************************************************)
(* Continuous-learning column matcher (backend-go/internal/service).       *)
(*                                                                         *)
(* Numbers.  The Go code computes in float64.  Here every quantity of the  *)
(* unit interval (weights, similarity scores, calibration factors) is a    *)
(* fixed-point integer with One == 10000 standing for 1.0, and every       *)
(* confidence (0..100 points) is an integer number of hundredths of a      *)
(* point (Cent == 100 stands for 1 point).  Quotients are rounded to the   *)
(* nearest unit (RoundDiv), so an equality of floats "up to epsilon" is an *)
(* equality up to the rounding of the quotients involved.                  *)
(*                                                                         *)
(* Wall-clock stamps (time.Now()) are not part of the model: the order of  *)
(* the entries of a log or history stands for time.                        *)
(***************************************************************************)
EXTENDS Integers, Sequences, FiniteSets, TLC

VARIABLES
    weights,          \* AdaptiveWeightLearner.weights
    trainingHistory,  \* AdaptiveWeightLearner.trainingHistory
    updateCount,      \* number of UpdateWeights calls made (bounds the model)
    buckets,          \* ConfidenceCalibrator.buckets, indexed 0..9
    history,          \* ConfidenceCalibrator.history
    patterns,         \* PatternLearner.patterns
    tokenMappings,    \* PatternLearner.tokenMappings, keyed by "token1|token2"
    learnCount,       \* number of LearnFrom... calls made (bounds the model)
    matches,          \* FeedbackLearningSystem.data.Matches
    corrections,      \* FeedbackLearningSystem.data.Corrections, keyed by "col1|col2"
    feedbackFile,     \* content of ./data/matching_feedback.json
    tasks,            \* the triggerMLLearning goroutines started so far
    request,          \* the two loaded datasets and their contexts (state.State)
    results,          \* what the last CalculateEnhancedSimilarity call returned
    df1,              \* rows of the first uploaded file (state.DataFrame)
    df2,              \* rows of the second uploaded file
    outcome,          \* how the last comparison of the two frames ended
    disk,             \* content of the three learner snapshot files under ./data
    savesPending,     \* per file, the detached save() calls that have not marshalled yet
    savesWriting,     \* the detached save() calls that hold a marshalled snapshot to write
    persistCount,     \* number of mutations, damages and restarts made (bounds the model)
    calls,            \* per caller, the AddFeedback call it is in and how far it got
    taskPc,           \* per started triggerMLLearning goroutine, how far it got
    onceState,        \* per accessor, the state of its sync.Once
    built,            \* per accessor, the number of instances constructed
    loadsRun,         \* per accessor, the number of load() calls completed
    threads,          \* per thread, the accessor it is calling and what it received
    probe,            \* the last call of a stateless function: its arguments and result
    mutex,            \* per learner, its sync.RWMutex: "free" or "w" (write-locked)
    inProgress        \* per learner, the mutation that holds the write lock and how far it got

weightVars == <<weights, trainingHistory, updateCount>>
calibVars == <<buckets, history>>
patternVars == <<patterns, tokenMappings, learnCount>>
feedbackVars == <<matches, corrections, feedbackFile, tasks>>
matchVars == <<request, results>>
rowVars == <<df1, df2, outcome>>
saveVars == <<disk, savesWriting>>
ackVars == <<calls>>
fanVars == <<taskPc>>
onceVars == <<onceState, built, loadsRun, threads>>
probeVars == <<probe>>
lockVars == <<mutex, inProgress>>
vars == <<weightVars, calibVars, patternVars, feedbackVars, matchVars, rowVars,
          saveVars, savesPending, persistCount, ackVars, fanVars, onceVars, probeVars, lockVars>>

(***************************************************************************)
(* Fixed-point arithmetic                                                  *)
(***************************************************************************)
One == 100 * 100
\* one confidence point, in the units confidences are counted in
Cent == 10 * 10

\* a / b rounded to the nearest integer (b > 0)
RoundDiv(a, b) ==
    LET q == a \div b
        r == a % b
    IN  IF 2 * r >= b THEN q + 1 ELSE q

Max(a, b) == IF a >= b THEN a ELSE b
Min(a, b) == IF a <= b THEN a ELSE b

\* n percent of 1.0
Pct(n) == (n * One) \div 100

\* the float64 value NaN, as a number no finite quantity of the model reaches.
\* Arithmetic on NaN gives NaN and every comparison with NaN is false; the
\* operators that can be handed NaN say so.
NaN == 0 - (One * One)

\* The float64 value +Inf, and Huge for a finite magnitude of 1e199 or more
\* (a score a client sent as 1e200, and what its products with the weights
\* and the learning rate come to).  Of a Huge or infinite quantity only the
\* sign, and whether it is finite, is used afterwards.
Inf == 2 * One * One
Huge == Inf - 1

IsFinite(x) == x # Inf /\ x # 0 - Inf /\ x # NaN

\* a + b of two quantities that are not negative when Huge or infinite
Plus(a, b) ==
    IF a = Inf \/ b = Inf THEN Inf
    ELSE IF a = Huge \/ b = Huge THEN Huge
    ELSE a + b

\* a * b, at scale One * One: Huge * Huge overflows float64
Times(a, b) ==
    IF a = Huge /\ b = Huge THEN Inf
    ELSE IF a = Huge \/ b = Huge THEN (IF a = 0 \/ b = 0 THEN 0 ELSE Huge)
    ELSE a * b

\* a / n for a count n
Mean(a, n) == IF a = Inf \/ a = Huge THEN a ELSE RoundDiv(a, n)

(***************************************************************************)
(* The snapshot files of the three learners that save in the background    *)
(***************************************************************************)
adaptiveWeightsFile == "adaptive_weights.json"
confidenceCalibrationFile == "confidence_calibration.json"
patternLearningFile == "pattern_learning.json"
LearnerFiles == {adaptiveWeightsFile, confidenceCalibrationFile, patternLearningFile}

(***************************************************************************)
(* AdaptiveWeightLearner (adaptive_learning.go)                            *)
(***************************************************************************)
DefaultNamePct == 35
DefaultDataPct == 30
DefaultPatternPct == 20
DefaultLLMPct == 15
\* learningRate 0.01 == 1 / LearningRateInv
LearningRateInv == 100
\* math.Max(0.05, w)
MinWeightPct == 5
\* trainingHistory keeps the last 100 entries
MaxTrainingHistory == 100
\* FeedbackLearningSystem hands UpdateWeights the 10 most recent entries
BatchLen == 10

\* what a snapshot file holds: nothing (no such file), bytes that do not
\* parse as JSON, or a JSON document
Absent == [kind |-> "absent"]
Corrupt == [kind |-> "corrupt"]

MinWeight == Pct(MinWeightPct)

DefaultWeights ==
    [Name |-> Pct(DefaultNamePct), Data |-> Pct(DefaultDataPct),
     Pattern |-> Pct(DefaultPatternPct), LLM |-> Pct(DefaultLLMPct)]

\* predicted := fb.NameSimilarity*w.Name + fb.DataSimilarity*w.Data + fb.PatternScore*w.Pattern
Predicted(w, fb) ==
    IF Huge \in {fb.NameSimilarity, fb.DataSimilarity, fb.PatternScore}
    THEN Huge
    ELSE RoundDiv(fb.NameSimilarity * w.Name + fb.DataSimilarity * w.Data
                  + fb.PatternScore * w.Pattern, One)

\* error := predicted - target, target 1.0 if fb.IsCorrect else 0.0
PredictionError(w, fb) ==
    IF Predicted(w, fb) = Huge THEN Huge
    ELSE Predicted(w, fb) - (IF fb.IsCorrect THEN One ELSE 0)

\* The loop over the batch from entry i on: the accumulated gradients (sums of
\* error * feature, scale One * One) and the accumulated loss (sum of
\* error * error \div One), added to what the earlier entries gave.
RECURSIVE AccumulateFrom(_, _, _, _)
AccumulateFrom(w, batch, i, acc) ==
    IF i > Len(batch)
    THEN acc
    ELSE LET fb  == batch[i]
             err == PredictionError(w, fb)
         IN  AccumulateFrom(w, batch, i + 1,
                 [Name    |-> Plus(acc.Name, Times(err, fb.NameSimilarity)),
                  Data    |-> Plus(acc.Data, Times(err, fb.DataSimilarity)),
                  Pattern |-> Plus(acc.Pattern, Times(err, fb.PatternScore)),
                  Loss    |-> Plus(acc.Loss, IF err = Huge THEN Inf
                                             ELSE RoundDiv(err * err, One))])

Accumulate(w, batch, i) ==
    AccumulateFrom(w, batch, i, [Name |-> 0, Data |-> 0, Pattern |-> 0, Loss |-> 0])

\* learningRate * (gradient / n)
StepSize(g, n) ==
    IF g = Inf \/ g = Huge THEN g
    ELSE RoundDiv(RoundDiv(g, n), LearningRateInv * One)

\* w -= learningRate * (gradient / n) for name, data and pattern; llm is not stepped
GradientStepFlipped(w, batch) ==
    LET g == Accumulate(w, batch, 1)
        n == Len(batch)
    IN  [Name    |-> w.Name + StepSize(g.Name, n),
         Data    |-> w.Data + StepSize(g.Data, n),
         Pattern |-> w.Pattern + StepSize(g.Pattern, n),
         LLM     |-> w.LLM]

GradientStep(w, batch) ==
    LET g == Accumulate(w, batch, 1)
        n == Len(batch)
        Stepped(x, d) == IF d = Inf \/ d = Huge THEN 0 - d ELSE x - d
    IN  [Name    |-> Stepped(w.Name, StepSize(g.Name, n)),
         Data    |-> Stepped(w.Data, StepSize(g.Data, n)),
         Pattern |-> Stepped(w.Pattern, StepSize(g.Pattern, n)),
         LLM     |-> w.LLM]

\* math.Max(0.05, w) on all four weights
FloorWeights(w) ==
    [Name |-> Max(MinWeight, w.Name), Data |-> Max(MinWeight, w.Data),
     Pattern |-> Max(MinWeight, w.Pattern), LLM |-> Max(MinWeight, w.LLM)]

\* total := sum; if total > 0 every weight is divided by it
NormalizeWeights(w) ==
    LET total == w.Name + w.Data + w.Pattern + w.LLM
    IN  IF total > 0
        THEN [Name |-> RoundDiv(w.Name * One, total), Data |-> RoundDiv(w.Data * One, total),
              Pattern |-> RoundDiv(w.Pattern * One, total), LLM |-> RoundDiv(w.LLM * One, total)]
        ELSE w

\* the weights UpdateWeights leaves behind
UpdatedWeights(w, batch) == NormalizeWeights(FloorWeights(GradientStep(w, batch)))

\* a cap that keeps the first entries and drops the newest
AppendCappedNewestDropped(h, e, cap) ==
    LET h2 == Append(h, e)
    IN  IF Len(h2) > cap THEN SubSeq(h2, 1, cap) ELSE h2

\* append, then keep the last 100 entries
AppendCapped(h, e, cap) ==
    LET h2 == Append(h, e)
    IN  IF Len(h2) > cap THEN SubSeq(h2, Len(h2) - cap + 1, Len(h2)) ELSE h2

\* "go x.save()": one more detached save of the file, yet to run
StartSave(file) == savesPending' = [savesPending EXCEPT ![file] = @ + 1]

\* UpdateWeights(feedbackBatch): returns at once on an empty batch
UpdateWeights(batch) ==
    /\ Len(batch) > 0
    /\ LET w2 == UpdatedWeights(weights, batch)
       IN  /\ weights' = w2
           /\ trainingHistory' = AppendCapped(trainingHistory,
                  [Loss |-> Mean(Accumulate(weights, batch, 1).Loss, Len(batch)),
                   Weights |-> w2, BatchSize |-> Len(batch)],
                  MaxTrainingHistory)
    /\ updateCount' = updateCount + 1
    /\ StartSave(adaptiveWeightsFile)

(***************************************************************************)
(* Inputs of the weight learner                                            *)
(***************************************************************************)
MaxUpdates == 2
MaxLongUpdates == 400

\* scores a client sends with a feedback entry (fractions of 1.0)
NameScores == {0, One \div 2, One}
DataScores == {0, One}
PatternScores == {0, Pct(90)}

Entries ==
    [NameSimilarity : NameScores, DataSimilarity : DataScores,
     PatternScore : PatternScores, IsCorrect : BOOLEAN]

Homogeneous(e, n) == [i \in 1..n |-> e]

\* ten copies of one entry, one entry alone, and a half-and-half batch
Batches ==
    {Homogeneous(e, BatchLen) : e \in Entries}
    \cup {Homogeneous(e, 1) : e \in {x \in Entries : x.NameSimilarity = One}}
    \cup {[i \in 1..BatchLen |->
              [NameSimilarity |-> One, DataSimilarity |-> IF i % 2 = 0 THEN One ELSE 0,
               PatternScore |-> 0, IsCorrect |-> (i <= BatchLen \div 2)]]}

ConfirmingBatches == {b \in Batches : Len(b) = BatchLen /\ \A i \in 1..Len(b) : b[i].IsCorrect}

\* the same confirmed match, ten times over, every score high
SteadyBatch ==
    Homogeneous([NameSimilarity |-> One, DataSimilarity |-> One,
                 PatternScore |-> Pct(90), IsCorrect |-> TRUE], BatchLen)

(***************************************************************************)
(* ConfidenceCalibrator (confidence_calibration.go)                        *)
(***************************************************************************)
NumBuckets == 10
\* width of a bucket, in points
BucketWidth == 10
\* calibration applies from 5 observations on
MinSamples == 5
\* history keeps the last 500 entries
MaxCalibrationHistory == 500
\* confidences are clamped to 0..100 points
MaxConfidencePts == 100

MaxConfidence == MaxConfidencePts * Cent

\* initializeBuckets(): ranges 0-10, ..., 90-100, accuracy seeded with the midpoint
initializeBuckets ==
    [i \in 0..(NumBuckets - 1) |->
        [RangeMin |-> i * BucketWidth, RangeMax |-> (i + 1) * BucketWidth,
         TotalCount |-> 0, CorrectCount |-> 0,
         ActualAccuracy |-> Pct(i * BucketWidth + 5),
         CalibrationFactor |-> One]]

\* int(x): conversion of a float to int truncates toward zero
TruncDiv(a, b) == IF a >= 0 THEN a \div b ELSE -((-a) \div b)

\* bucketIdx := int(predictedConfidence / 10), clamped into 0..9
BucketIndex(conf) ==
    LET idx == TruncDiv(conf, BucketWidth * Cent)
    IN  IF idx >= NumBuckets THEN NumBuckets - 1 ELSE IF idx < 0 THEN 0 ELSE idx

\* The indexes bucketIdx can come to.  A quotient beyond the range of int64
\* converts to a value that depends on the platform: the least int64 on amd64
\* (clamped to 0), the greatest on arm64 (clamped to 9).  A quotient below the
\* range converts to the least int64 on both, and NaN to the least int64 or to 0.
BucketIndexes(conf) ==
    IF conf = Huge \/ conf = Inf THEN {0, NumBuckets - 1} ELSE {BucketIndex(conf)}

\* calibrateInternal once the bucket is selected
calibrateBucket(bucket, conf) ==
    IF conf = NaN THEN NaN
    ELSE IF bucket.TotalCount < MinSamples THEN conf
    ELSE IF conf = Huge \/ conf = Inf
         THEN (IF bucket.CalibrationFactor = 0 /\ conf = Huge THEN 0
               ELSE IF bucket.CalibrationFactor = 0 THEN NaN ELSE MaxConfidence)
    ELSE IF conf = 0 - Huge THEN 0
    ELSE LET calibrated == RoundDiv(conf * bucket.CalibrationFactor, One)
         IN  IF calibrated < 0 THEN 0
             ELSE IF calibrated > MaxConfidence THEN MaxConfidence ELSE calibrated

\* calibrateInternal without the gate on the number of observations
calibrateInternalNoGate(bs, conf) ==
    LET bucket == bs[BucketIndex(conf)]
        calibrated == RoundDiv(conf * bucket.CalibrationFactor, One)
    IN  IF calibrated < 0 THEN 0
        ELSE IF calibrated > MaxConfidence THEN MaxConfidence ELSE calibrated

\* calibrateInternal: identity below 5 observations, else conf * factor
\* clamped to 0..100.  For NaN the bucket int(NaN / 10) selects depends on the
\* platform, and the result is NaN whichever it is: the gate returns the
\* argument, NaN * factor is NaN, and neither clamp comparison is true of NaN.
calibrateInternal(bs, conf) ==
    LET bucket == bs[BucketIndex(conf)]
        calibrated == RoundDiv(conf * bucket.CalibrationFactor, One)
    IN  IF conf = NaN THEN NaN
        ELSE IF bucket.TotalCount < MinSamples THEN conf
        ELSE IF calibrated < 0 THEN 0
        ELSE IF calibrated > MaxConfidence THEN MaxConfidence ELSE calibrated

\* Calibrate(predictedConfidence), under the read lock
Calibrate(conf) == calibrateInternal(buckets, conf)

\* the bucket Update leaves behind: counts, accuracy and factor recomputed
UpdatedBucketGated(b, actualCorrect) ==
    LET total    == b.TotalCount + 1
        correct  == b.CorrectCount + (IF actualCorrect THEN 1 ELSE 0)
        accuracy == IF total > 0 THEN RoundDiv(correct * One, total) ELSE b.ActualAccuracy
        expected == ((b.RangeMin + b.RangeMax) * One) \div 200
    IN  [b EXCEPT !.TotalCount = total, !.CorrectCount = correct,
                  !.ActualAccuracy = accuracy,
                  !.CalibrationFactor =
                      IF expected > 0 /\ total >= MinSamples
                      THEN RoundDiv(accuracy * One, expected) ELSE @]

UpdatedBucket(b, actualCorrect) ==
    LET total    == b.TotalCount + 1
        correct  == b.CorrectCount + (IF actualCorrect THEN 1 ELSE 0)
        accuracy == IF total > 0 THEN RoundDiv(correct * One, total) ELSE b.ActualAccuracy
        expected == ((b.RangeMin + b.RangeMax) * One) \div 200
    IN  [b EXCEPT !.TotalCount = total, !.CorrectCount = correct,
                  !.ActualAccuracy = accuracy,
                  !.CalibrationFactor =
                      IF expected > 0 THEN RoundDiv(accuracy * One, expected) ELSE @]

\* Update(predictedConfidence, actualCorrect)
Update(conf, actualCorrect) ==
    \E idx \in BucketIndexes(conf) :
        LET bs2 == [buckets EXCEPT ![idx] = UpdatedBucket(@, actualCorrect)]
        IN  /\ buckets' = bs2
            /\ history' = AppendCapped(history,
                   [PredictedConf |-> conf, ActualCorrect |-> actualCorrect,
                    CalibratedConf |-> calibrateBucket(bs2[idx], conf)],
                   MaxCalibrationHistory)
            /\ StartSave(confidenceCalibrationFile)

(***************************************************************************)
(* Inputs of the calibrator                                                *)
(***************************************************************************)
MaxCalibUpdates == 6

\* confidences reported with a feedback entry: 5, 95 and 100 points
FeedbackConfidences == {5 * Cent, 95 * Cent, MaxConfidence}

\* confidences handed to Calibrate: every half point from 0 to 100
CalibrateSamples == {(k * Cent) \div 2 : k \in 0..(2 * MaxConfidencePts)}

ObservationCount ==
    LET RECURSIVE SumTo(_)
        SumTo(i) == IF i < 0 THEN 0 ELSE buckets[i].TotalCount + SumTo(i - 1)
    IN  SumTo(NumBuckets - 1)

InitCalib ==
    /\ buckets = initializeBuckets
    /\ history = <<>>

NextCalib ==
    \E conf \in FeedbackConfidences, actualCorrect \in BOOLEAN :
        /\ ObservationCount < MaxCalibUpdates
        /\ Update(conf, actualCorrect)
        /\ UNCHANGED <<weightVars, patternVars, feedbackVars, matchVars, rowVars, saveVars, persistCount,
                       ackVars, fanVars, onceVars, probeVars, lockVars>>

(***************************************************************************)
(* PatternLearner (pattern_learning.go)                                    *)
(*                                                                         *)
(* A column name is a sequence of one-character strings.  A pattern        *)
(* confidence is an exact fraction <<numerator, denominator>>; a token     *)
(* score is a fixed-point number (One == 1.0).                             *)
(***************************************************************************)
UpperCase == <<"A", "B", "C", "D", "E", "F", "G", "H", "I", "J", "K", "L", "M",
               "N", "O", "P", "Q", "R", "S", "T", "U", "V", "W", "X", "Y", "Z">>
LowerCase == <<"a", "b", "c", "d", "e", "f", "g", "h", "i", "j", "k", "l", "m",
               "n", "o", "p", "q", "r", "s", "t", "u", "v", "w", "x", "y", "z">>

\* strings.ToLower
ToLowerChar(c) ==
    IF \E i \in DOMAIN UpperCase : UpperCase[i] = c
    THEN LowerCase[CHOOSE i \in DOMAIN UpperCase : UpperCase[i] = c]
    ELSE c

ToLower(s) == [i \in 1..Len(s) |-> ToLowerChar(s[i])]

\* strings.HasSuffix, strings.HasPrefix
HasSuffix(s, suffix) ==
    Len(s) >= Len(suffix) /\ SubSeq(s, Len(s) - Len(suffix) + 1, Len(s)) = suffix

HasPrefix(s, prefix) ==
    Len(s) >= Len(prefix) /\ SubSeq(s, 1, Len(prefix)) = prefix

\* the ordered suffix and prefix tables of extractPattern
SuffixPatterns == <<
    [suffix |-> <<"_", "i", "d">>, pattern |-> "*_id"],
    [suffix |-> <<"_", "i", "d", "e", "n", "t", "i", "f", "i", "e", "r">>, pattern |-> "*_identifier"],
    [suffix |-> <<"_", "c", "o", "d", "e">>, pattern |-> "*_code"],
    [suffix |-> <<"_", "n", "a", "m", "e">>, pattern |-> "*_name"],
    [suffix |-> <<"_", "d", "a", "t", "e">>, pattern |-> "*_date"],
    [suffix |-> <<"_", "t", "i", "m", "e">>, pattern |-> "*_time"],
    [suffix |-> <<"_", "a", "t">>, pattern |-> "*_at"],
    [suffix |-> <<"_", "t", "y", "p", "e">>, pattern |-> "*_type"],
    [suffix |-> <<"_", "s", "t", "a", "t", "u", "s">>, pattern |-> "*_status"],
    [suffix |-> <<"_", "a", "m", "o", "u", "n", "t">>, pattern |-> "*_amount"],
    [suffix |-> <<"_", "p", "r", "i", "c", "e">>, pattern |-> "*_price"],
    [suffix |-> <<"_", "c", "o", "u", "n", "t">>, pattern |-> "*_count"],
    [suffix |-> <<"_", "n", "u", "m">>, pattern |-> "*_num"],
    [suffix |-> <<"_", "n", "u", "m", "b", "e", "r">>, pattern |-> "*_number"] >>

PrefixPatterns == <<
    [prefix |-> <<"i", "s", "_">>, pattern |-> "is_*"],
    [prefix |-> <<"h", "a", "s", "_">>, pattern |-> "has_*"],
    [prefix |-> <<"d", "a", "t", "e", "_">>, pattern |-> "date_*"],
    [prefix |-> <<"n", "u", "m", "_">>, pattern |-> "num_*"] >>

\* the two loops in the other order: prefixes first
extractPatternPrefixFirst(col) ==
    LET c  == ToLower(col)
        si == {i \in DOMAIN SuffixPatterns : HasSuffix(c, SuffixPatterns[i].suffix)}
        pi == {i \in DOMAIN PrefixPatterns : HasPrefix(c, PrefixPatterns[i].prefix)}
    IN  IF pi # {} THEN PrefixPatterns[CHOOSE i \in pi : \A j \in pi : i <= j].pattern
        ELSE IF si # {} THEN SuffixPatterns[CHOOSE i \in si : \A j \in si : i <= j].pattern
        ELSE ""

\* extractPattern(col): first suffix that matches, else first prefix, else ""
extractPattern(col) ==
    LET c  == ToLower(col)
        si == {i \in DOMAIN SuffixPatterns : HasSuffix(c, SuffixPatterns[i].suffix)}
        pi == {i \in DOMAIN PrefixPatterns : HasPrefix(c, PrefixPatterns[i].prefix)}
    IN  IF si # {} THEN SuffixPatterns[CHOOSE i \in si : \A j \in si : i <= j].pattern
        ELSE IF pi # {} THEN PrefixPatterns[CHOOSE i \in pi : \A j \in pi : i <= j].pattern
        ELSE ""

\* strings.Fields after "_" and "-" became blanks: the maximal runs of
\* non-blank characters, left to right
IsBlank(c) == c \in {" ", "_", "-"}

RECURSIVE Fields(_, _, _)
Fields(s, i, cur) ==
    IF i > Len(s) THEN (IF cur = <<>> THEN <<>> ELSE <<cur>>)
    ELSE IF IsBlank(s[i])
         THEN (IF cur = <<>> THEN <<>> ELSE <<cur>>) \o Fields(s, i + 1, <<>>)
         ELSE Fields(s, i + 1, Append(cur, s[i]))

\* tokenizeColumn(col): lower-cased fields longer than one character
tokenizeColumn(col) == SelectSeq(Fields(ToLower(col), 1, <<>>), LAMBDA t : Len(t) > 1)

\* the column names of the datasets in use
ColUserId == <<"u", "s", "e", "r", "_", "i", "d">>
ColCustId == <<"C", "u", "s", "t", "_", "I", "D">>
ColCustomerIdentifier == <<"c", "u", "s", "t", "o", "m", "e", "r", "_", "i", "d", "e", "n", "t", "i", "f", "i", "e", "r">>
ColIsActive == <<"i", "s", "_", "a", "c", "t", "i", "v", "e">>
ColEmail == <<"e", "m", "a", "i", "l">>
ColFirstNameLastName == <<"f", "i", "r", "s", "t", "_", "n", "a", "m", "e", "_",
                          "l", "a", "s", "t", "_", "n", "a", "m", "e">>
ColFullName == <<"f", "u", "l", "l", "_", "n", "a", "m", "e">>

File1Columns == {ColUserId, ColIsActive, ColEmail}
File2Columns == {ColCustId, ColCustomerIdentifier, ColEmail}

\* extractPattern and tokenizeColumn are pure functions of the column name:
\* their values for the column names in use
ColumnPattern == [c \in File1Columns \cup File2Columns |-> extractPattern(c)]

ColumnTokens == [c \in File1Columns \cup File2Columns |-> tokenizeColumn(c)]

\* ... and for the column names among which one repeats a token
NameFile1Columns == {ColFirstNameLastName, ColUserId}
NameFile2Columns == {ColFullName, ColCustId}

NamePattern == [c \in NameFile1Columns \cup NameFile2Columns |-> extractPattern(c)]

NameTokens == [c \in NameFile1Columns \cup NameFile2Columns |-> tokenizeColumn(c)]

\* key := t1 + "|" + t2
TokenKey(t1, t2) == t1 \o <<"|">> \o t2

\* seed confidence of a new rule: 0.7
SeedConfidenceTenths == 7
\* token score on first sight: 0.6
FirstTokenScorePct == 60
\* LearnFromNegative multiplies a token score by 0.8, floored at 0.1
TokenDecayPct == 80
MinTokenScorePct == 10

\* calculatePatternConfidence(success, fail)
calculatePatternConfidence(success, fail) ==
    IF success + fail = 0 THEN <<1, 2>> ELSE <<success + 2, success + fail + 4>>

\* comparison of fractions with positive denominators
FracLess(a, b) == a[1] * b[2] < b[1] * a[2]

\* index of the first rule for (pattern1, pattern2), 0 if there is none
RuleIndex(rules, pattern1, pattern2) ==
    LET hits == {i \in DOMAIN rules :
                    rules[i].Pattern1 = pattern1 /\ rules[i].Pattern2 = pattern2}
    IN  IF hits = {} THEN 0 ELSE CHOOSE i \in hits : \A j \in hits : i <= j

\* the pairs (t1, t2) in the order the nested loops visit them
TokenPairs(tokens1, tokens2) ==
    [k \in 1..(Len(tokens1) * Len(tokens2)) |->
        <<tokens1[((k - 1) \div Len(tokens2)) + 1], tokens2[((k - 1) % Len(tokens2)) + 1]>>]

\* one pass of the positive token loop over pairs[k..]
RECURSIVE LearnTokens(_, _, _)
LearnTokens(tm, pairs, k) ==
    IF k > Len(pairs) THEN tm
    ELSE LET t1  == pairs[k][1]
             t2  == pairs[k][2]
             key == TokenKey(t1, t2)
             m   == IF key \in DOMAIN tm
                    THEN LET occ == tm[key].Occurrences + 1
                         IN  [tm[key] EXCEPT !.Occurrences = occ,
                                 !.Score = (One \div 2) + RoundDiv((One \div 2) * occ, occ + 5)]
                    ELSE [Token1 |-> t1, Token2 |-> t2,
                          Score |-> Pct(FirstTokenScorePct), Occurrences |-> 1]
             tm2 == [x \in (DOMAIN tm) \cup {key} |-> IF x = key THEN m ELSE tm[x]]
         IN  IF t1 # <<>> /\ t2 # <<>> THEN LearnTokens(tm2, pairs, k + 1)
             ELSE LearnTokens(tm, pairs, k + 1)

\* one pass of the negative token loop over pairs[k..]
RECURSIVE DecayTokens(_, _, _)
DecayTokens(tm, pairs, k) ==
    IF k > Len(pairs) THEN tm
    ELSE LET key == TokenKey(pairs[k][1], pairs[k][2])
         IN  IF key \in DOMAIN tm
             THEN DecayTokens(
                      [tm EXCEPT ![key].Score =
                          Max(Pct(MinTokenScorePct), RoundDiv(@ * TokenDecayPct, 100))],
                      pairs, k + 1)
             ELSE DecayTokens(tm, pairs, k + 1)

\* the rule list LearnFromPositive leaves behind
\* the rule list of LearnFromPositive without the test for empty patterns
PositiveRulesUnguarded(rules, pattern1, pattern2) ==
    LET i == RuleIndex(rules, pattern1, pattern2)
    IN  IF i # 0
        THEN [rules EXCEPT ![i].SuccessCount = @ + 1,
                           ![i].Confidence =
                               calculatePatternConfidence(rules[i].SuccessCount + 1,
                                                          rules[i].FailCount)]
        ELSE Append(rules, [Pattern1 |-> pattern1, Pattern2 |-> pattern2,
                            Confidence |-> <<SeedConfidenceTenths, 10>>,
                            SuccessCount |-> 1, FailCount |-> 0])

\* the rule list LearnFromPositive leaves behind
PositiveRules(rules, pattern1, pattern2) ==
    LET i == RuleIndex(rules, pattern1, pattern2)
    IN  IF i # 0
        THEN [rules EXCEPT ![i].SuccessCount = @ + 1,
                           ![i].Confidence =
                               calculatePatternConfidence(rules[i].SuccessCount + 1,
                                                          rules[i].FailCount)]
        ELSE IF pattern1 # "" /\ pattern2 # ""
        THEN Append(rules, [Pattern1 |-> pattern1, Pattern2 |-> pattern2,
                            Confidence |-> <<SeedConfidenceTenths, 10>>,
                            SuccessCount |-> 1, FailCount |-> 0])
        ELSE rules

\* the rule list LearnFromNegative leaves behind
NegativeRules(rules, pattern1, pattern2) ==
    LET i == RuleIndex(rules, pattern1, pattern2)
    IN  IF i # 0
        THEN [rules EXCEPT ![i].FailCount = @ + 1,
                           ![i].Confidence =
                               calculatePatternConfidence(rules[i].SuccessCount,
                                                          rules[i].FailCount + 1)]
        ELSE rules

\* LearnFromPositive once pattern1, pattern2, tokens1 and tokens2 are derived
learnPositive(pattern1, pattern2, tokens1, tokens2) ==
    /\ patterns' = PositiveRules(patterns, pattern1, pattern2)
    /\ tokenMappings' = LearnTokens(tokenMappings, TokenPairs(tokens1, tokens2), 1)
    /\ learnCount' = learnCount + 1
    /\ StartSave(patternLearningFile)

\* LearnFromNegative once pattern1, pattern2, tokens1 and tokens2 are derived
learnNegative(pattern1, pattern2, tokens1, tokens2) ==
    /\ patterns' = NegativeRules(patterns, pattern1, pattern2)
    /\ tokenMappings' = DecayTokens(tokenMappings, TokenPairs(tokens1, tokens2), 1)
    /\ learnCount' = learnCount + 1
    /\ StartSave(patternLearningFile)

\* LearnFromPositive(col1, col2)
LearnFromPositive(col1, col2) ==
    learnPositive(ColumnPattern[col1], ColumnPattern[col2],
                  ColumnTokens[col1], ColumnTokens[col2])

\* LearnFromNegative(col1, col2, nameSim, dataSim): the two scores are only logged
LearnFromNegative(col1, col2) ==
    learnNegative(ColumnPattern[col1], ColumnPattern[col2],
                  ColumnTokens[col1], ColumnTokens[col2])

\* the two calls on the names among which one repeats a token
LearnNameFromPositive(col1, col2) ==
    learnPositive(NamePattern[col1], NamePattern[col2], NameTokens[col1], NameTokens[col2])

LearnNameFromNegative(col1, col2) ==
    learnNegative(NamePattern[col1], NamePattern[col2], NameTokens[col1], NameTokens[col2])

(***************************************************************************)
(* Inputs of the pattern learner                                           *)
(***************************************************************************)
MaxLearn == 5

InitPattern ==
    /\ patterns = <<>>
    /\ tokenMappings = <<>>
    /\ learnCount = 0

NextPattern ==
    \E col1 \in File1Columns, col2 \in File2Columns :
        /\ learnCount < MaxLearn
        /\ \/ LearnFromPositive(col1, col2)
           \/ LearnFromNegative(col1, col2)
        /\ UNCHANGED <<weightVars, calibVars, feedbackVars, matchVars, rowVars, saveVars, persistCount,
                       ackVars, fanVars, onceVars, probeVars, lockVars>>

(***************************************************************************)
(* Snapshots: save() and load() of the four learners.  A snapshot is the   *)
(* JSON document json.MarshalIndent writes: objects keyed by the json tags *)
(* of the Go structs, arrays for slices.  json.Marshal fails on a float    *)
(* that is NaN or infinite and then nothing is written.  load() decodes    *)
(* into a local value and assigns it only when the file parsed.            *)
(***************************************************************************)
MarshalError == [kind |-> "error"]
JSON(doc) == [kind |-> "json", doc |-> doc]

WeightsFinite(w) ==
    IsFinite(w.Name) /\ IsFinite(w.Data) /\ IsFinite(w.Pattern) /\ IsFinite(w.LLM)

MarshalWeights(w) == [name |-> w.Name, data |-> w.Data, pattern |-> w.Pattern, llm |-> w.LLM]

\* json.Unmarshal leaves a struct field at its zero value when the object
\* has no such key
EmptyObject == [k \in {} |-> 0]
Field(obj, key, zero) == IF key \in DOMAIN obj THEN obj[key] ELSE zero

UnmarshalWeights(j) ==
    [Name |-> Field(j, "name", 0), Data |-> Field(j, "data", 0),
     Pattern |-> Field(j, "pattern", 0), LLM |-> Field(j, "llm", 0)]

\* the local value "saved" of load() after json.Unmarshal(data, &saved)
UnmarshalAdaptive(doc) ==
    LET h == Field(doc, "history", <<>>)
    IN  [weights |-> UnmarshalWeights(Field(doc, "weights", EmptyObject)),
         trainingHistory |-> [i \in DOMAIN h |->
             [Loss |-> h[i].loss,
              Weights |-> UnmarshalWeights(h[i].weights),
              BatchSize |-> h[i].batch_size]]]

\* AdaptiveWeightLearner.save: {"weights": a.weights, "history": a.trainingHistory}
MarshalAdaptive(w, h) ==
    IF \/ ~WeightsFinite(w)
       \/ \E i \in DOMAIN h : ~IsFinite(h[i].Loss) \/ ~WeightsFinite(h[i].Weights)
    THEN MarshalError
    ELSE JSON([weights |-> MarshalWeights(w),
               history |-> [i \in DOMAIN h |->
                               [loss |-> h[i].Loss,
                                weights |-> MarshalWeights(h[i].Weights),
                                batch_size |-> h[i].BatchSize]]])

\* a load that assigns the zero value it decoded into, parsed or not
loadAdaptiveUnchecked(content) ==
    IF content.kind # "json"
    THEN [weights |-> [Name |-> 0, Data |-> 0, Pattern |-> 0, LLM |-> 0],
          trainingHistory |-> <<>>]
    ELSE UnmarshalAdaptive(content.doc)

\* GetAdaptiveLearner: the learner built with its defaults, then load()
loadAdaptive(content) ==
    IF content.kind # "json"
    THEN [weights |-> DefaultWeights, trainingHistory |-> <<>>]
    ELSE UnmarshalAdaptive(content.doc)

\* ConfidenceCalibrator.save: {"buckets": c.buckets, "history": c.history}
MarshalCalibration(bs, h) ==
    IF \E i \in DOMAIN h : ~IsFinite(h[i].PredictedConf) \/ ~IsFinite(h[i].CalibratedConf)
    THEN MarshalError
    ELSE JSON([buckets |-> [i \in 1..NumBuckets |->
                               [range_min |-> bs[i - 1].RangeMin,
                                range_max |-> bs[i - 1].RangeMax,
                                total_count |-> bs[i - 1].TotalCount,
                                correct_count |-> bs[i - 1].CorrectCount,
                                actual_accuracy |-> bs[i - 1].ActualAccuracy,
                                calibration_factor |-> bs[i - 1].CalibrationFactor]],
               history |-> [i \in DOMAIN h |->
                               [predicted_confidence |-> h[i].PredictedConf,
                                actual_correct |-> h[i].ActualCorrect,
                                calibrated_confidence |-> h[i].CalibratedConf]]])

\* GetConfidenceCalibrator: the seeded buckets, then load(); the saved
\* buckets are taken only if there are 10 of them
loadCalibration(content) ==
    IF content.kind # "json"
    THEN [buckets |-> initializeBuckets, history |-> <<>>]
    ELSE [buckets |->
              IF Len(content.doc.buckets) = NumBuckets
              THEN [i \in 0..(NumBuckets - 1) |->
                       LET b == content.doc.buckets[i + 1]
                       IN  [RangeMin |-> b.range_min, RangeMax |-> b.range_max,
                            TotalCount |-> b.total_count, CorrectCount |-> b.correct_count,
                            ActualAccuracy |-> b.actual_accuracy,
                            CalibrationFactor |-> b.calibration_factor]]
              ELSE initializeBuckets,
          history |-> [i \in DOMAIN content.doc.history |->
              [PredictedConf |-> content.doc.history[i].predicted_confidence,
               ActualCorrect |-> content.doc.history[i].actual_correct,
               CalibratedConf |-> content.doc.history[i].calibrated_confidence]]]

\* PatternLearner.save: {"patterns": p.patterns, "token_mappings": p.tokenMappings}
MarshalPatterns(rules, tm) ==
    JSON([patterns |-> [i \in DOMAIN rules |->
                           [pattern1 |-> rules[i].Pattern1, pattern2 |-> rules[i].Pattern2,
                            confidence |-> rules[i].Confidence,
                            success_count |-> rules[i].SuccessCount,
                            fail_count |-> rules[i].FailCount]],
          token_mappings |-> [k \in DOMAIN tm |->
                           [token1 |-> tm[k].Token1, token2 |-> tm[k].Token2,
                            score |-> tm[k].Score, occurrences |-> tm[k].Occurrences]]])

\* GetPatternLearner: no rules and an empty token table, then load()
loadPatterns(content) ==
    IF content.kind # "json"
    THEN [patterns |-> <<>>, tokenMappings |-> <<>>]
    ELSE [patterns |-> [i \in DOMAIN content.doc.patterns |->
              LET r == content.doc.patterns[i]
              IN  [Pattern1 |-> r.pattern1, Pattern2 |-> r.pattern2,
                   Confidence |-> r.confidence, SuccessCount |-> r.success_count,
                   FailCount |-> r.fail_count]],
          tokenMappings |-> [k \in DOMAIN content.doc.token_mappings |->
              LET m == content.doc.token_mappings[k]
              IN  [Token1 |-> m.token1, Token2 |-> m.token2,
                   Score |-> m.score, Occurrences |-> m.occurrences]]]

\* FeedbackEntry: correct_match carries omitempty
MarshalEntry(e) ==
    LET base == [file1_column |-> e.File1Column, file2_column |-> e.File2Column,
                 is_correct |-> e.IsCorrect, name_similarity |-> e.NameSimilarity,
                 data_similarity |-> e.DataSimilarity, pattern_score |-> e.PatternScore,
                 confidence |-> e.Confidence]
    IN  IF e.CorrectMatch = <<>> THEN base
        ELSE [k \in (DOMAIN base) \cup {"correct_match"} |->
                 IF k = "correct_match" THEN e.CorrectMatch ELSE base[k]]

UnmarshalEntry(j) ==
    [File1Column |-> j.file1_column, File2Column |-> j.file2_column,
     IsCorrect |-> j.is_correct,
     CorrectMatch |-> IF "correct_match" \in DOMAIN j THEN j.correct_match ELSE <<>>,
     NameSimilarity |-> j.name_similarity, DataSimilarity |-> j.data_similarity,
     PatternScore |-> j.pattern_score, Confidence |-> j.confidence]

\* FeedbackLearningSystem.save: f.data, {"matches": ..., "corrections": ...}
MarshalFeedback(ms, cs) ==
    IF \E i \in DOMAIN ms :
           \/ ~IsFinite(ms[i].NameSimilarity) \/ ~IsFinite(ms[i].DataSimilarity)
           \/ ~IsFinite(ms[i].PatternScore) \/ ~IsFinite(ms[i].Confidence)
    THEN MarshalError
    ELSE JSON([matches |-> [i \in DOMAIN ms |-> MarshalEntry(ms[i])],
               corrections |-> [k \in DOMAIN cs |->
                                   [suggested |-> cs[k].Suggested,
                                    correct |-> cs[k].Correct, count |-> cs[k].Count]]])

\* GetFeedbackSystem: an empty log and table, then load()
loadFeedback(content) ==
    IF content.kind # "json"
    THEN [matches |-> <<>>, corrections |-> <<>>]
    ELSE [matches |-> [i \in DOMAIN content.doc.matches |->
                          UnmarshalEntry(content.doc.matches[i])],
          corrections |-> [k \in DOMAIN content.doc.corrections |->
              LET c == content.doc.corrections[k]
              IN  [Suggested |-> c.suggested, Correct |-> c.correct, Count |-> c.count]]]

(***************************************************************************)
(* FeedbackLearningSystem (feedback_learning.go)                           *)
(***************************************************************************)
\* GetLearnedBoost results, in percent: +0.2, -0.3, -0.25, -0.15
BoostCorrectPct == 20
PenaltyRejectedPct == 30
PenaltyCorrectionPct == 25
PenaltySuggestedPct == 15

\* key := entry.File1Column + "|" + entry.File2Column
CorrectionKey(col1, col2) == col1 \o <<"|">> \o col2

\* the Corrections table after an entry: upsert on negative feedback that
\* carries a correct match, count 1 or the old count + 1
UpsertCorrection(cs, entry) ==
    LET key == CorrectionKey(entry.File1Column, entry.File2Column)
        c   == [Suggested |-> entry.File2Column, Correct |-> entry.CorrectMatch,
                Count |-> IF key \in DOMAIN cs THEN cs[key].Count + 1 ELSE 1]
    IN  IF ~entry.IsCorrect /\ entry.CorrectMatch # <<>>
        THEN [k \in (DOMAIN cs) \cup {key} |-> IF k = key THEN c ELSE cs[k]]
        ELSE cs

\* the first 10 entries of the log instead of the last 10
RecentFeedbackOldest(ms) == IF Len(ms) > BatchLen THEN SubSeq(ms, 1, BatchLen) ELSE ms

\* recentFeedback: the last 10 entries of the log, all of it if shorter
RecentFeedback(ms) ==
    IF Len(ms) > BatchLen THEN SubSeq(ms, Len(ms) - BatchLen + 1, Len(ms)) ELSE ms

\* AddFeedback(entry): append, upsert the correction, write the snapshot,
\* start triggerMLLearning(entry, recentFeedback) in the background
AddFeedback(entry) ==
    LET ms == Append(matches, entry)
        cs == UpsertCorrection(corrections, entry)
    IN  /\ matches' = ms
        /\ corrections' = cs
        /\ feedbackFile' = LET data == MarshalFeedback(ms, cs)
                           IN  IF data.kind = "error" THEN feedbackFile ELSE data
        /\ tasks' = Append(tasks, [feedback |-> entry, recentBatch |-> RecentFeedback(ms)])

\* the loop without its returns: the last entry for (col1, col2) decides
RECURSIVE LastVerdict(_, _, _, _)
LastVerdict(ms, col1, col2, i) ==
    IF i > Len(ms) THEN "none"
    ELSE LET later == LastVerdict(ms, col1, col2, i + 1)
         IN  IF later # "none" THEN later
             ELSE IF ms[i].File1Column = col1 /\ ms[i].File2Column = col2
                  THEN (IF ms[i].IsCorrect THEN "correct" ELSE "rejected")
                  ELSE "none"

\* the loop of GetLearnedBoost over the log, from entry i on: the verdict of
\* the first entry for (col1, col2), "none" if there is no such entry
RECURSIVE FirstVerdict(_, _, _, _)
FirstVerdict(ms, col1, col2, i) ==
    IF i > Len(ms) THEN "none"
    ELSE IF ms[i].File1Column = col1 /\ ms[i].File2Column = col2
         THEN (IF ms[i].IsCorrect THEN "correct" ELSE "rejected")
         ELSE FirstVerdict(ms, col1, col2, i + 1)

\* GetLearnedBoost with the Corrections lookup ahead of the log
LearnedBoostCorrectionsFirst(ms, cs, col1, col2) ==
    LET verdict == FirstVerdict(ms, col1, col2, 1)
    IN  IF CorrectionKey(col1, col2) \in DOMAIN cs THEN -Pct(PenaltyCorrectionPct)
        ELSE IF verdict = "correct" THEN Pct(BoostCorrectPct)
        ELSE IF verdict = "rejected" THEN -Pct(PenaltyRejectedPct)
        ELSE IF \E k \in DOMAIN cs : cs[k].Suggested = col2 THEN -Pct(PenaltySuggestedPct)
        ELSE 0

\* GetLearnedBoost(file1Col, file2Col) on the data (ms, cs)
LearnedBoost(ms, cs, col1, col2) ==
    LET verdict == FirstVerdict(ms, col1, col2, 1)
    IN  IF verdict = "correct" THEN Pct(BoostCorrectPct)
        ELSE IF verdict = "rejected" THEN -Pct(PenaltyRejectedPct)
        ELSE IF CorrectionKey(col1, col2) \in DOMAIN cs THEN -Pct(PenaltyCorrectionPct)
        ELSE IF \E k \in DOMAIN cs : cs[k].Suggested = col2 THEN -Pct(PenaltySuggestedPct)
        ELSE 0

GetLearnedBoost(col1, col2) == LearnedBoost(matches, corrections, col1, col2)

(***************************************************************************)
(* Inputs of the feedback system                                           *)
(***************************************************************************)
MaxFeedback == 3

ColAB == <<"a", "|", "b">>
ColC == <<"c">>
ColA == <<"a">>
ColBC == <<"b", "|", "c">>

FeedbackFile1Columns == {ColUserId, ColAB}
FeedbackFile2Columns == {ColCustId, ColC}

\* the columns GetLearnedBoost is asked about
QueryFile1Columns == FeedbackFile1Columns \cup {ColA, ColIsActive}
QueryFile2Columns == FeedbackFile2Columns \cup {ColBC}

\* feedback as the API accepts it; the scores are those of a strong name match
FeedbackEntries ==
    [File1Column : FeedbackFile1Columns, File2Column : FeedbackFile2Columns,
     IsCorrect : BOOLEAN, CorrectMatch : {<<>>, ColEmail},
     NameSimilarity : {One}, DataSimilarity : {0}, PatternScore : {0},
     Confidence : {95 * Cent}]

InitFeedback ==
    /\ matches = <<>>
    /\ corrections = <<>>
    /\ feedbackFile = Absent
    /\ tasks = <<>>

NextFeedback ==
    \E entry \in FeedbackEntries :
        /\ Len(matches) < MaxFeedback
        /\ AddFeedback(entry)
        /\ UNCHANGED <<weightVars, calibVars, patternVars, matchVars, rowVars, saveVars, savesPending, persistCount,
                       ackVars, fanVars, onceVars, probeVars, lockVars>>

\* feedback on columns whose names hold the separator of the Corrections key
MaxCorrectionFeedback == 3

CorrectionFile1Columns == {ColAB, ColA}
CorrectionFile2Columns == {ColC, ColBC}

CorrectionEntries ==
    [File1Column : CorrectionFile1Columns, File2Column : CorrectionFile2Columns,
     IsCorrect : BOOLEAN, CorrectMatch : {<<>>, ColEmail},
     NameSimilarity : {One}, DataSimilarity : {0}, PatternScore : {0},
     Confidence : {95 * Cent}]

NextCorrections ==
    \E entry \in CorrectionEntries :
        /\ Len(matches) < MaxCorrectionFeedback
        /\ AddFeedback(entry)
        /\ UNCHANGED <<weightVars, calibVars, patternVars, matchVars, rowVars, saveVars, savesPending, persistCount,
                       ackVars, fanVars, onceVars, probeVars, lockVars>>

(***************************************************************************)
(* PatternLearner.GetPatternBoost (pattern_learning.go)                    *)
(***************************************************************************)
\* the rule loop, were it to stop at the first rule for the pattern pair
DecidingRuleFirstHit(rules, pattern1, pattern2) == RuleIndex(rules, pattern1, pattern2)

\* the rule loop: the first rule for the pattern pair whose confidence is above
\* 0.7 or below 0.3 decides; 0 if there is none
DecidingRule(rules, pattern1, pattern2) ==
    LET hits == {i \in DOMAIN rules :
                    /\ rules[i].Pattern1 = pattern1 /\ rules[i].Pattern2 = pattern2
                    /\ \/ FracLess(<<7, 10>>, rules[i].Confidence)
                       \/ FracLess(rules[i].Confidence, <<3, 10>>)}
    IN  IF hits = {} THEN 0 ELSE CHOOSE i \in hits : \A j \in hits : i <= j

\* the token loop: sum of (score - 0.5) and number of known pairs, from pairs[k] on
RECURSIVE TokenScoreSum(_, _, _)
TokenScoreSum(tm, pairs, k) ==
    IF k > Len(pairs) THEN [total |-> 0, count |-> 0]
    ELSE LET key  == TokenKey(pairs[k][1], pairs[k][2])
             rest == TokenScoreSum(tm, pairs, k + 1)
         IN  IF key \in DOMAIN tm
             THEN [total |-> rest.total + tm[key].Score - (One \div 2),
                   count |-> rest.count + 1]
             ELSE rest

\* GetPatternBoost once pattern1, pattern2, tokens1 and tokens2 are derived, a
\* fraction of 1.0
patternBoost(pattern1, pattern2, tokens1, tokens2) ==
    LET i  == DecidingRule(patterns, pattern1, pattern2)
        ts == TokenScoreSum(tokenMappings, TokenPairs(tokens1, tokens2), 1)
    IN  IF i # 0
        THEN LET c == patterns[i].Confidence
             IN  RoundDiv((2 * c[1] - c[2]) * One, 5 * c[2])
        ELSE IF ts.count > 0 THEN RoundDiv(ts.total * 2, ts.count * 10)
        ELSE 0

\* GetPatternBoost(col1, col2)
GetPatternBoost(col1, col2) ==
    patternBoost(ColumnPattern[col1], ColumnPattern[col2],
                 ColumnTokens[col1], ColumnTokens[col2])

\* GetPatternBoost on the names among which one repeats a token
GetNameBoost(col1, col2) ==
    patternBoost(NamePattern[col1], NamePattern[col2], NameTokens[col1], NameTokens[col2])

(***************************************************************************)
(* EnhancedSimilarityService (enhanced_similarity.go)                      *)
(*                                                                         *)
(* Steps 1 to 6 of compareColumns turn the cells of the two columns into   *)
(* signals.  A request carries, for every pair of column indices, the      *)
(* signals those steps compute: tokenSim, isSynonym, patternScore,         *)
(* qualityMatch, cardinalityMatch, normalizedMatch, formatTransform,       *)
(* dataSimilarity and bothPrimaryKeys.  Steps 7 to 15 are modelled on the  *)
(* learners' state.                                                        *)
(***************************************************************************)
\* explicit custom mapping: 95.0
CustomMappingPts == 95
\* results need confidence > 10
MinResultPts == 10
\* multipliers, in percent: format transform, synonym, primary keys, same
\* business domain, key entity
FormatTransformPct == 125
SynonymPct == 120
PrimaryKeyPct == 130
SameDomainPct == 110
KeyEntityPct == 115
\* the weights of the quality, cardinality and normalized-match signals, in points
QualityPts == 10
CardinalityPts == 15
NormalizedPts == 10

\* a fraction of 1.0 as confidence points (x * 100)
Points(x) == RoundDiv(x * MaxConfidence, One)

\* math.Min(100, confidence * pct / 100); math.Min gives NaN for NaN
Boosted(conf, pct) ==
    IF conf = NaN THEN NaN ELSE Min(MaxConfidence, RoundDiv(conf * pct, 100))

\* strings.Contains
Contains(s, sub) ==
    \E i \in 1..(Len(s) + 1) :
        i + Len(sub) - 1 <= Len(s) /\ SubSeq(s, i, i + Len(sub) - 1) = sub

\* a context that was never collected (a nil *models.Context)
NoContext == [present |-> FALSE]

\* applyContextBoost(confidence, col1, col2, ctx1, ctx2)
applyContextBoost(conf, col1, col2, ctx1, ctx2) ==
    LET domain  == IF ctx1.BusinessDomain # "" /\ ctx1.BusinessDomain = ctx2.BusinessDomain
                   THEN SameDomainPct ELSE 100
        entity  == IF \E k \in DOMAIN ctx1.KeyEntities :
                          /\ Contains(ToLower(col1), ToLower(ctx1.KeyEntities[k]))
                          /\ Contains(ToLower(col2), ToLower(ctx1.KeyEntities[k]))
                   THEN KeyEntityPct ELSE 100
    IN  IF col1 \in DOMAIN ctx1.CustomMappings /\ ctx1.CustomMappings[col1] = col2
        THEN CustomMappingPts * Cent
        ELSE IF conf = NaN THEN NaN
        ELSE Min(MaxConfidence, RoundDiv(conf * domain * entity, 100 * 100))

\* steps 7 to 14 of compareColumns: the confidence handed to the calibrator
RawConfidence(col1, col2, sig, ctx1, ctx2) ==
    LET base     == IF sig.dataSimilarity = NaN THEN NaN
                    ELSE Points(RoundDiv(sig.tokenSim * weights.Name, One))
                         + Points(RoundDiv(sig.dataSimilarity * weights.Data, One))
                         + Points(RoundDiv(sig.patternScore * weights.Pattern, One))
                         + Points(RoundDiv(0 * weights.LLM, One))
                         + RoundDiv(sig.qualityMatch * QualityPts * Cent, One)
                         + RoundDiv(sig.cardinalityMatch * CardinalityPts * Cent, One)
                         + RoundDiv(sig.normalizedMatch * NormalizedPts * Cent, One)
        format   == IF sig.formatTransform THEN Boosted(base, FormatTransformPct) ELSE base
        learned  == IF format = NaN THEN NaN
                    ELSE format + Points(GetLearnedBoost(col1, col2))
                                + Points(GetPatternBoost(col1, col2))
        synonym  == IF sig.isSynonym THEN Boosted(learned, SynonymPct) ELSE learned
        keys     == IF sig.bothPrimaryKeys /\ 2 * sig.normalizedMatch > One
                    THEN Boosted(synonym, PrimaryKeyPct) ELSE synonym
    IN  IF ctx1.present /\ ctx2.present
        THEN applyContextBoost(keys, col1, col2, ctx1, ctx2)
        ELSE keys

\* the two clamp tests, conf < 0 and conf > 100; both are false of NaN
Clamp(conf) ==
    IF conf = NaN THEN NaN
    ELSE IF conf < 0 THEN 0 ELSE IF conf > MaxConfidence THEN MaxConfidence ELSE conf

\* compareColumns: calibrate, clamp, Similarity = Confidence / 100
compareColumns(col1, col2, sig, ctx1, ctx2) ==
    LET conf == Clamp(Calibrate(RawConfidence(col1, col2, sig, ctx1, ctx2)))
    IN  [File1Column |-> col1, File2Column |-> col2,
         Confidence |-> conf,
         Similarity |-> IF conf = NaN THEN NaN ELSE RoundDiv(conf * One, MaxConfidence)]

\* the two nested loops over the headers: the results with confidence > 10, in
\* the order the pairs are visited, from pair number k on (row-major)
RECURSIVE CollectResults(_, _)
CollectResults(req, k) ==
    LET n1 == Len(req.Headers1)
        n2 == Len(req.Headers2)
    IN  IF k > n1 * n2 THEN <<>>
        ELSE LET i == ((k - 1) \div n2) + 1
                 j == ((k - 1) % n2) + 1
                 r == compareColumns(req.Headers1[i], req.Headers2[j],
                                     req.Signals[<<i, j>>], req.Ctx1, req.Ctx2)
             IN  (IF r.Confidence # NaN /\ r.Confidence > MinResultPts * Cent
                  THEN <<r>> ELSE <<>>)
                 \o CollectResults(req, k + 1)

\* the comparison turned around
LessAscending(a, b) == a.Confidence # NaN /\ b.Confidence # NaN /\ a.Confidence < b.Confidence

\* less(i, j) of the sort: results[i].Confidence > results[j].Confidence
Less(a, b) == a.Confidence # NaN /\ b.Confidence # NaN /\ a.Confidence > b.Confidence

\* sort.Slice on at most 12 elements is an insertion sort: element i sinks
\* towards the front while it is Less than its left neighbour
RECURSIVE Sink(_, _)
Sink(seq, j) ==
    IF j > 1 /\ Less(seq[j], seq[j - 1])
    THEN Sink([seq EXCEPT ![j] = seq[j - 1], ![j - 1] = seq[j]], j - 1)
    ELSE seq

RECURSIVE InsertionSort(_, _)
InsertionSort(seq, i) ==
    IF i > Len(seq) THEN seq ELSE InsertionSort(Sink(seq, i), i + 1)

\* the list CalculateEnhancedSimilarity returns
EnhancedSimilarity(req) == InsertionSort(CollectResults(req, 1), 2)

\* GetColumnSimilarity needs both files loaded
CalculateEnhancedSimilarity ==
    /\ request.loaded
    /\ results' = EnhancedSimilarity(request)
    /\ UNCHANGED request

\* the uploads and the context wizard replace the datasets and contexts
LoadData(req) ==
    /\ request' = req
    /\ UNCHANGED results

(***************************************************************************)
(* Inputs of the matching pipeline                                         *)
(***************************************************************************)
MaxPipelineOps == 5

\* signals of a pair of columns that look alike in name and in data
StrongSignals ==
    [tokenSim |-> One, isSynonym |-> TRUE, patternScore |-> Pct(90),
     qualityMatch |-> One, cardinalityMatch |-> Pct(90), normalizedMatch |-> One,
     formatTransform |-> FALSE, dataSimilarity |-> One, bothPrimaryKeys |-> TRUE]

\* signals of a pair with a format transform and middling names
TransformSignals ==
    [tokenSim |-> One \div 2, isSynonym |-> FALSE, patternScore |-> 0,
     qualityMatch |-> Pct(70), cardinalityMatch |-> Pct(80), normalizedMatch |-> Pct(60),
     formatTransform |-> TRUE, dataSimilarity |-> Pct(60), bothPrimaryKeys |-> FALSE]

\* signals of two unrelated, empty columns
WeakSignals ==
    [tokenSim |-> 0, isSynonym |-> FALSE, patternScore |-> 0,
     qualityMatch |-> 0, cardinalityMatch |-> Pct(20), normalizedMatch |-> 0,
     formatTransform |-> FALSE, dataSimilarity |-> 0, bothPrimaryKeys |-> FALSE]

\* signals of a pair alike in name and data, neither synonyms nor keys
PlainSignals ==
    [tokenSim |-> One, isSynonym |-> FALSE, patternScore |-> Pct(90),
     qualityMatch |-> One, cardinalityMatch |-> Pct(90), normalizedMatch |-> One,
     formatTransform |-> FALSE, dataSimilarity |-> One, bothPrimaryKeys |-> FALSE]

\* signals of two numeric columns (the first 20 cells of each are numbers) one
\* of which holds the cell "NaN" further down: calculateDistributionSimilarity
\* parses it with strconv.ParseFloat and returns NaN
NaNSignals ==
    [tokenSim |-> One \div 2, isSynonym |-> FALSE, patternScore |-> 0,
     qualityMatch |-> One, cardinalityMatch |-> Pct(90), normalizedMatch |-> 0,
     formatTransform |-> FALSE, dataSimilarity |-> NaN, bothPrimaryKeys |-> FALSE]

\* signals of two low-quality columns with a faint name likeness
FaintSignals ==
    [tokenSim |-> Pct(20), isSynonym |-> FALSE, patternScore |-> 0,
     qualityMatch |-> One \div 2, cardinalityMatch |-> Pct(30), normalizedMatch |-> 0,
     formatTransform |-> FALSE, dataSimilarity |-> 0, bothPrimaryKeys |-> FALSE]

CtxMapped ==
    [present |-> TRUE, BusinessDomain |-> "sales", KeyEntities |-> <<>>,
     CustomMappings |-> [c \in {ColUserId} |-> ColCustId]]

CtxSales ==
    [present |-> TRUE, BusinessDomain |-> "sales", KeyEntities |-> << <<"C", "u", "s", "t">> >>,
     CustomMappings |-> <<>>]

NoData ==
    [loaded |-> FALSE, Headers1 |-> <<>>, Headers2 |-> <<>>, Signals |-> <<>>,
     Ctx1 |-> NoContext, Ctx2 |-> NoContext]

Dataset(sigs, ctx1, ctx2) ==
    [loaded |-> TRUE,
     Headers1 |-> <<ColUserId, ColEmail>>, Headers2 |-> <<ColCustId, ColCustomerIdentifier>>,
     Signals |-> sigs, Ctx1 |-> ctx1, Ctx2 |-> ctx2]

Pairs22 == {<<1, 1>>, <<1, 2>>, <<2, 1>>, <<2, 2>>}

SignalsA ==
    [p \in Pairs22 |->
        IF p = <<1, 1>> THEN TransformSignals
        ELSE IF p = <<1, 2>> THEN StrongSignals
        ELSE IF p = <<2, 1>> THEN WeakSignals ELSE PlainSignals]

SignalsB ==
    [p \in Pairs22 |->
        IF p = <<1, 1>> THEN WeakSignals
        ELSE IF p = <<1, 2>> THEN FaintSignals
        ELSE IF p = <<2, 1>> THEN StrongSignals ELSE NaNSignals]

Requests ==
    {Dataset(SignalsA, CtxMapped, NoContext),
     Dataset(SignalsA, CtxMapped, CtxSales),
     Dataset(SignalsB, CtxSales, CtxSales)}

PipelineFeedback ==
    {e \in FeedbackEntries :
        /\ e.File1Column = ColUserId /\ e.File2Column = ColCustId
        /\ (e.CorrectMatch # <<>>) = ~e.IsCorrect}

PipelineOps == ObservationCount + Len(matches) + learnCount + updateCount

InitMatch ==
    /\ request = NoData
    /\ results = <<>>

NextPipeline ==
    \/ /\ PipelineOps < MaxPipelineOps
       /\ \E correct \in BOOLEAN : Update(CustomMappingPts * Cent, correct)
       /\ UNCHANGED <<weightVars, patternVars, feedbackVars, matchVars, rowVars, saveVars, persistCount,
                      ackVars, fanVars, onceVars, probeVars, lockVars>>
    \/ /\ PipelineOps < MaxPipelineOps
       /\ \E entry \in PipelineFeedback : AddFeedback(entry)
       /\ UNCHANGED <<weightVars, calibVars, patternVars, matchVars, rowVars, saveVars, savesPending, persistCount,
                      ackVars, fanVars, onceVars, probeVars, lockVars>>
    \/ /\ PipelineOps < MaxPipelineOps
       /\ LearnFromPositive(ColUserId, ColCustId)
       /\ UNCHANGED <<weightVars, calibVars, feedbackVars, matchVars, rowVars, saveVars, persistCount,
                      ackVars, fanVars, onceVars, probeVars, lockVars>>
    \/ /\ PipelineOps < MaxPipelineOps
       /\ LearnFromNegative(ColUserId, ColCustId)
       /\ UNCHANGED <<weightVars, calibVars, feedbackVars, matchVars, rowVars, saveVars, persistCount,
                      ackVars, fanVars, onceVars, probeVars, lockVars>>
    \/ /\ PipelineOps < MaxPipelineOps
       /\ UpdateWeights(SteadyBatch)
       /\ UNCHANGED <<calibVars, patternVars, feedbackVars, matchVars, rowVars, saveVars, persistCount,
                      ackVars, fanVars, onceVars, probeVars, lockVars>>
    \/ /\ request = NoData
       /\ \E req \in Requests : LoadData(req)
       /\ UNCHANGED <<weightVars, calibVars, patternVars, feedbackVars, rowVars, saveVars, savesPending, persistCount,
                      ackVars, fanVars, onceVars, probeVars, lockVars>>
    \/ /\ CalculateEnhancedSimilarity
       /\ UNCHANGED <<weightVars, calibVars, patternVars, feedbackVars, rowVars, saveVars, savesPending, persistCount,
                      ackVars, fanVars, onceVars, probeVars, lockVars>>

(***************************************************************************)
(* Row access of the comparison (enhanced_similarity.go,                   *)
(* normalized_matcher.go, state.go).  A data frame is its number of        *)
(* header columns and its rows; a row is the sequence of its cells and may *)
(* be shorter or longer than the header (csv.Reader.FieldsPerRecord = -1). *)
(* A cell is kept as what FormatNormalizer.DetectFormat says of it: ""     *)
(* for the empty cell, "text", or "date" for any format other than text.   *)
(* Go indexes rows and cells from 0: row i of the code is Rows[i + 1].     *)
(***************************************************************************)
PatternSampleSize == 50
NormalizedSampleSize == 200
FormatSampleSize == 10
NumericCheckRows == 20
OverlapLimit == 500

MaxRows == 2
MaxCols == 1

Cells == {"", "text", "date"}

RowShapes == UNION {[1..n -> Cells] : n \in 0..MaxCols}

RowTables == UNION {[1..n -> RowShapes] : n \in 0..MaxRows}

DataFrames == [Headers : 0..MaxCols, Rows : RowTables]

NoFrame == [Headers |-> 0 - 1, Rows |-> <<>>]

\* The loop "for i := 0; i < sampleSize; i++ { ... df.Rows[i] ... }" reads a
\* row that does not exist when sampleSize exceeds the number of rows.
RowLoopFaults(rows, sampleSize) == \E i \in 0..(sampleSize - 1) : i >= Len(rows)

detectPatternFaults(df) ==
    /\ Len(df.Rows) # 0
    /\ RowLoopFaults(df.Rows, Min(PatternSampleSize, Len(df.Rows)))

CalculateNormalizedMatchFaults(d1, d2) ==
    LET sampleSize == Min(Min(NormalizedSampleSize, Len(d1.Rows)), Len(d2.Rows))
    IN RowLoopFaults(d1.Rows, sampleSize) \/ RowLoopFaults(d2.Rows, sampleSize)

\* One format-detection loop of DetectFormatTransformation from row i on:
\* the format found, or a fault when row i does not exist.
RECURSIVE ScanFormat(_, _, _, _, _)
ScanFormat(rows, colIdx, i, sampleSize, format) ==
    IF i >= sampleSize THEN [fault |-> FALSE, format |-> format]
    ELSE IF i >= Len(rows) THEN [fault |-> TRUE, format |-> format]
    ELSE LET row == rows[i + 1]
         IN IF colIdx < Len(row) /\ row[colIdx + 1] # ""
            THEN IF row[colIdx + 1] # "text"
                 THEN [fault |-> FALSE, format |-> row[colIdx + 1]]
                 ELSE ScanFormat(rows, colIdx, i + 1, sampleSize, "text")
            ELSE ScanFormat(rows, colIdx, i + 1, sampleSize, format)

DetectFormatTransformationFaults(d1, d2, col1Idx, col2Idx) ==
    LET sampleSize == Min(FormatSampleSize, Len(d1.Rows))
        scan1 == ScanFormat(d1.Rows, col1Idx, 0, sampleSize, "")
        scan2 == ScanFormat(d2.Rows, col2Idx, 0, sampleSize, "")
    IN \/ scan1.fault
       \/ scan2.fault
       \/ /\ scan1.format # ""
          /\ scan1.format = scan2.format
          /\ scan1.format # "text"
          /\ CalculateNormalizedMatchFaults(d1, d2)

GetNumericColumnIndicesFaults(df) ==
    /\ Len(df.Rows) # 0
    /\ RowLoopFaults(df.Rows, Min(NumericCheckRows, Len(df.Rows)))

calculateValueOverlapFaults(d1, d2) ==
    \/ RowLoopFaults(d1.Rows, Min(OverlapLimit, Len(d1.Rows)))
    \/ RowLoopFaults(d2.Rows, Min(OverlapLimit, Len(d2.Rows)))

\* compareColumns reaches a row that does not exist.  ProfileColumn and
\* getFloatValues range over the rows and skip the short ones.
compareColumnsFaults(d1, d2, col1Idx, col2Idx) ==
    \/ detectPatternFaults(d1)
    \/ detectPatternFaults(d2)
    \/ CalculateNormalizedMatchFaults(d1, d2)
    \/ DetectFormatTransformationFaults(d1, d2, col1Idx, col2Idx)
    \/ GetNumericColumnIndicesFaults(d1)
    \/ GetNumericColumnIndicesFaults(d2)
    \/ calculateValueOverlapFaults(d1, d2)

\* CalculateEnhancedSimilarity over the two frames: the number of column
\* pairs compared when it returns, or the panic that unwinds it.
SimilarityOutcome(d1, d2) ==
    IF \E col1Idx \in 0..(d1.Headers - 1), col2Idx \in 0..(d2.Headers - 1) :
           compareColumnsFaults(d1, d2, col1Idx, col2Idx)
    THEN [status |-> "panic", compared |-> 0]
    ELSE [status |-> "returned", compared |-> d1.Headers * d2.Headers]

UploadFile1(df) ==
    /\ df1' = df
    /\ outcome' = [status |-> "idle", compared |-> 0]
    /\ UNCHANGED df2

UploadFile2(df) ==
    /\ df2' = df
    /\ outcome' = [status |-> "idle", compared |-> 0]
    /\ UNCHANGED df1

GetColumnSimilarity ==
    /\ df1 # NoFrame
    /\ df2 # NoFrame
    /\ outcome' = SimilarityOutcome(df1, df2)
    /\ UNCHANGED <<df1, df2>>

InitRows ==
    /\ df1 = NoFrame
    /\ df2 = NoFrame
    /\ outcome = [status |-> "idle", compared |-> 0]

NextRows ==
    \/ \E df \in DataFrames :
           /\ UploadFile1(df)
           /\ UNCHANGED <<weightVars, calibVars, patternVars, feedbackVars, matchVars, saveVars, savesPending, persistCount,
                          ackVars, fanVars, onceVars, probeVars, lockVars>>
    \/ \E df \in DataFrames :
           /\ UploadFile2(df)
           /\ UNCHANGED <<weightVars, calibVars, patternVars, feedbackVars, matchVars, saveVars, savesPending, persistCount,
                          ackVars, fanVars, onceVars, probeVars, lockVars>>
    \/ /\ GetColumnSimilarity
       /\ UNCHANGED <<weightVars, calibVars, patternVars, feedbackVars, matchVars, saveVars, savesPending, persistCount,
                      ackVars, fanVars, onceVars, probeVars, lockVars>>

\* a rejected match that names the right column
PersistEntry ==
    [File1Column |-> ColUserId, File2Column |-> ColCustId, IsCorrect |-> FALSE,
     CorrectMatch |-> ColEmail, NameSimilarity |-> One, DataSimilarity |-> 0,
     PatternScore |-> 0, Confidence |-> 95 * Cent]

(***************************************************************************)
(* AddFeedback, step by step, for callers that run at the same time        *)
(* (feedback_learning.go:114-154).  AddFeedback above is the call that     *)
(* runs alone and whose write succeeds, taken as one step.                 *)
(***************************************************************************)
MaxCallers == 2
MaxAckFeedback == 3

Callers == 1..MaxCallers

IdleCall ==
    [pc |-> "idle", entry |-> <<>>, pos |-> 0, batch |-> <<>>, data |-> Absent,
     failed |-> FALSE, everFailed |-> FALSE, result |-> <<>>]

\* Lock() ... Unlock(): append, upsert the correction, take recentFeedback
AddFeedbackLock(c, entry) ==
    /\ calls[c].pc \in {"idle", "returned"}
    /\ matches' = Append(matches, entry)
    /\ corrections' = UpsertCorrection(corrections, entry)
    /\ calls' = [calls EXCEPT ![c] =
                    [pc |-> "appended", entry |-> entry, pos |-> Len(matches) + 1,
                     batch |-> RecentFeedback(Append(matches, entry)), data |-> Absent,
                     failed |-> FALSE, everFailed |-> calls[c].everFailed,
                     result |-> <<>>]]
    /\ UNCHANGED <<feedbackFile, tasks>>

\* save(), up to RUnlock: marshal the log and the table as they are now
AddFeedbackMarshal(c) ==
    /\ calls[c].pc = "appended"
    /\ LET data == MarshalFeedback(matches, corrections)
       IN  calls' = [calls EXCEPT ![c] =
                        IF data.kind = "error"
                        THEN [@ EXCEPT !.pc = "saved", !.failed = TRUE, !.everFailed = TRUE]
                        ELSE [@ EXCEPT !.pc = "marshalled", !.data = data]]
    /\ UNCHANGED feedbackVars

\* save(), after RUnlock: os.WriteFile succeeds
AddFeedbackWrite(c) ==
    /\ calls[c].pc = "marshalled"
    /\ feedbackFile' = calls[c].data
    /\ calls' = [calls EXCEPT ![c].pc = "saved"]
    /\ UNCHANGED <<matches, corrections, tasks>>

\* os.WriteFile fails: the file is as it was or is left cut short; save()
\* returns the error and AddFeedback logs it
AddFeedbackWriteFails(c, left) ==
    /\ calls[c].pc = "marshalled"
    /\ left \in {feedbackFile, Corrupt}
    /\ feedbackFile' = left
    /\ calls' = [calls EXCEPT ![c].pc = "saved", ![c].failed = TRUE,
                              ![c].everFailed = TRUE]
    /\ UNCHANGED <<matches, corrections, tasks>>

\* a return that reports the failed save and starts no learning
AddFeedbackReturnChecked(c) ==
    /\ calls[c].pc = "saved"
    /\ tasks' = IF calls[c].failed THEN tasks
                ELSE Append(tasks, [feedback |-> calls[c].entry,
                                    recentBatch |-> calls[c].batch])
    /\ calls' = [calls EXCEPT ![c].pc = "returned",
                    ![c].result = [entry |-> calls[c].entry,
                                   err |-> IF calls[c].failed THEN "save failed" ELSE "nil"]]
    /\ UNCHANGED <<matches, corrections, feedbackFile>>

\* go f.triggerMLLearning(entry, recentFeedback); return &entry, nil
AddFeedbackReturn(c) ==
    /\ calls[c].pc = "saved"
    /\ tasks' = Append(tasks, [feedback |-> calls[c].entry,
                               recentBatch |-> calls[c].batch])
    /\ calls' = [calls EXCEPT ![c].pc = "returned",
                    ![c].result = [entry |-> calls[c].entry, err |-> "nil"]]
    /\ UNCHANGED <<matches, corrections, feedbackFile>>

AckEntries ==
    {[File1Column |-> ColUserId, File2Column |-> ColCustId, IsCorrect |-> TRUE,
      CorrectMatch |-> <<>>, NameSimilarity |-> One, DataSimilarity |-> 0,
      PatternScore |-> 0, Confidence |-> 95 * Cent],
     PersistEntry}

InitAck == calls = [c \in Callers |-> IdleCall]

NextAck ==
    \/ \E c \in Callers, entry \in AckEntries :
          /\ Len(matches) < MaxAckFeedback
          /\ AddFeedbackLock(c, entry)
          /\ UNCHANGED <<weightVars, calibVars, patternVars, matchVars, rowVars, saveVars,
                         savesPending, persistCount, fanVars, onceVars, probeVars, lockVars>>
    \/ \E c \in Callers :
          /\ AddFeedbackMarshal(c)
          /\ UNCHANGED <<weightVars, calibVars, patternVars, matchVars, rowVars, saveVars,
                         savesPending, persistCount, fanVars, onceVars, probeVars, lockVars>>
    \/ \E c \in Callers :
          /\ AddFeedbackWrite(c)
          /\ UNCHANGED <<weightVars, calibVars, patternVars, matchVars, rowVars, saveVars,
                         savesPending, persistCount, fanVars, onceVars, probeVars, lockVars>>
    \/ \E c \in Callers, left \in {feedbackFile, Corrupt} :
          /\ AddFeedbackWriteFails(c, left)
          /\ UNCHANGED <<weightVars, calibVars, patternVars, matchVars, rowVars, saveVars,
                         savesPending, persistCount, fanVars, onceVars, probeVars, lockVars>>
    \/ \E c \in Callers :
          /\ AddFeedbackReturn(c)
          /\ UNCHANGED <<weightVars, calibVars, patternVars, matchVars, rowVars, saveVars,
                         savesPending, persistCount, fanVars, onceVars, probeVars, lockVars>>

(***************************************************************************)
(* triggerMLLearning (feedback_learning.go:156-182): the goroutine that    *)
(* AddFeedback starts.  Task i is the one started for entry i of the log.  *)
(***************************************************************************)
\* where task i is: a task that has not run yet is before its first call
Pc(i) == IF i \in DOMAIN taskPc THEN taskPc[i] ELSE "calibrate"

SetPc(i, pc) ==
    taskPc' = [k \in (DOMAIN taskPc) \cup {i} |-> IF k = i THEN pc ELSE taskPc[k]]

\* a task that goes on without telling the calibrator
TaskCalibrateSkipped(i) ==
    /\ i \in DOMAIN tasks
    /\ Pc(i) = "calibrate"
    /\ UNCHANGED <<calibVars, savesPending>>
    /\ SetPc(i, "pattern")

\* 1. calibrator.Update(feedback.Confidence, feedback.IsCorrect)
TaskCalibrate(i) ==
    /\ i \in DOMAIN tasks
    /\ Pc(i) = "calibrate"
    /\ Update(tasks[i].feedback.Confidence, tasks[i].feedback.IsCorrect)
    /\ SetPc(i, "pattern")

\* 2. LearnFromPositive if feedback.IsCorrect, LearnFromNegative otherwise
TaskPattern(i) ==
    /\ i \in DOMAIN tasks
    /\ Pc(i) = "pattern"
    /\ IF tasks[i].feedback.IsCorrect
       THEN LearnFromPositive(tasks[i].feedback.File1Column, tasks[i].feedback.File2Column)
       ELSE LearnFromNegative(tasks[i].feedback.File1Column, tasks[i].feedback.File2Column)
    /\ SetPc(i, "weights")

\* 3. if len(recentBatch) >= 10 { adaptiveLearner.UpdateWeights(recentBatch) }
TaskWeights(i) ==
    /\ i \in DOMAIN tasks
    /\ Pc(i) = "weights"
    /\ IF Len(tasks[i].recentBatch) >= BatchLen
       THEN UpdateWeights(tasks[i].recentBatch)
       ELSE UNCHANGED <<weightVars, savesPending>>
    /\ SetPc(i, "done")

TaskStep(i) ==
    \/ /\ TaskCalibrate(i)
       /\ UNCHANGED <<weightVars, patternVars, feedbackVars, matchVars, rowVars, saveVars,
                      persistCount, ackVars, onceVars, probeVars, lockVars>>
    \/ /\ TaskPattern(i)
       /\ UNCHANGED <<weightVars, calibVars, feedbackVars, matchVars, rowVars, saveVars,
                      persistCount, ackVars, onceVars, probeVars, lockVars>>
    \/ /\ TaskWeights(i)
       /\ UNCHANGED <<calibVars, patternVars, feedbackVars, matchVars, rowVars, saveVars,
                      persistCount, ackVars, onceVars, probeVars, lockVars>>

(***************************************************************************)
(* Inputs of the fan-out runs                                              *)
(***************************************************************************)
MaxFanoutFeedback == 11
\* a caller arrives only while fewer than this many tasks are unfinished
MaxPendingTasks == 2
\* rejected matches among the entries submitted
MaxRejected == 1

PendingTasks == {i \in DOMAIN tasks : Pc(i) # "done"}
AllTasksDone == PendingTasks = {}
Rejected == {i \in DOMAIN matches : ~matches[i].IsCorrect}

NextFanout ==
    \/ \E entry \in AckEntries :
          /\ Len(matches) < MaxFanoutFeedback
          /\ Cardinality(PendingTasks) < MaxPendingTasks
          /\ ~entry.IsCorrect => Cardinality(Rejected) < MaxRejected
          /\ AddFeedback(entry)
          /\ UNCHANGED <<weightVars, calibVars, patternVars, matchVars, rowVars, saveVars,
                         savesPending, persistCount, ackVars, fanVars, onceVars, probeVars, lockVars>>
    \/ \E i \in 1..MaxFanoutFeedback : TaskStep(i)

(***************************************************************************)
(* Stateless functions.  A call is recorded with its arguments and result. *)
(***************************************************************************)
NoProbe == [fn |-> "none"]

\* the caller has taken the result; the next call can be made
ProbeReturn ==
    /\ probe.fn # "none"
    /\ probe' = NoProbe
    /\ UNCHANGED <<weightVars, calibVars, patternVars, feedbackVars, matchVars, rowVars,
                   saveVars, savesPending, persistCount, ackVars, fanVars, onceVars,
                   lockVars>>

(***************************************************************************)
(* Calls of extractPattern (pattern_learning.go) on column names made of   *)
(* up to MaxSegments words joined by "_"                                   *)
(***************************************************************************)
MaxSegments == 3

Segments ==
    {<<"i", "s">>, <<"h", "a", "s">>, <<"n", "u", "m">>, <<"u", "s", "e", "r">>,
     <<"i", "d">>, <<"I", "D">>, <<"v", "a", "l", "i", "d">>, <<"a", "c", "t", "i", "v", "e">>,
     <<"N", "a", "m", "e">>,
     <<"d", "e", "s", "c", "r", "i", "p", "t", "i", "o", "n">>}

RECURSIVE SegmentedNames(_)
SegmentedNames(n) ==
    IF n = 1 THEN Segments
    ELSE {s \o <<"_">> \o w : s \in SegmentedNames(n - 1), w \in Segments}

ColumnNames == UNION {SegmentedNames(n) : n \in 1..MaxSegments}

NextExtract ==
    \/ \E col \in ColumnNames :
          /\ probe.fn = "none"
          /\ probe' = [fn |-> "extractPattern", col |-> col, result |-> extractPattern(col)]
          /\ UNCHANGED <<weightVars, calibVars, patternVars, feedbackVars, matchVars, rowVars,
                         saveVars, savesPending, persistCount, ackVars, fanVars, onceVars,
                   lockVars>>
    \/ ProbeReturn

(***************************************************************************)
(* DataQualityProfiler.ProfileColumn (data_quality.go).  A cell is the     *)
(* sequence of its characters; row i of the code is rows[i + 1] and cell   *)
(* colIdx of a row is row[colIdx + 1].                                     *)
(***************************************************************************)
PrimaryKeyUniquenessPct == 95
PrimaryKeyNullPct == 5

\* a null test that ignores the case of the letters
IsNullCellCaseBlind(value) ==
    \/ value = <<>>
    \/ ToLower(value) = <<"n", "u", "l", "l">>
    \/ ToLower(value) = <<"n", "o", "n", "e">>

\* value == "" || value == "null" || value == "NULL" || value == "None"
IsNullCell(value) ==
    \/ value = <<>>
    \/ value = <<"n", "u", "l", "l">>
    \/ value = <<"N", "U", "L", "L">>
    \/ value = <<"N", "o", "n", "e">>

\* the loop over df.Rows from row i on: the keys of uniqueValues and
\* nonNullCount
RECURSIVE ProfileScan(_, _, _, _, _)
ProfileScan(rows, colIdx, i, uniqueValues, nonNullCount) ==
    IF i >= Len(rows) THEN [uniqueValues |-> uniqueValues, nonNullCount |-> nonNullCount]
    ELSE LET row == rows[i + 1]
         IN  IF colIdx >= Len(row)
             THEN ProfileScan(rows, colIdx, i + 1, uniqueValues, nonNullCount)
             ELSE IF IsNullCell(row[colIdx + 1])
             THEN ProfileScan(rows, colIdx, i + 1, uniqueValues, nonNullCount)
             ELSE ProfileScan(rows, colIdx, i + 1, uniqueValues \cup {row[colIdx + 1]},
                              nonNullCount + 1)

\* the profile without Entropy and QualityScore
ProfileColumn(rows, colIdx) ==
    LET scan == ProfileScan(rows, colIdx, 0, {}, 0)
        TotalRows == Len(rows)
        DistinctCount == Cardinality(scan.uniqueValues)
        NullRate == IF TotalRows > 0
                    THEN RoundDiv((TotalRows - scan.nonNullCount) * One, TotalRows) ELSE 0
        UniquenessRatio == IF scan.nonNullCount > 0
                           THEN RoundDiv(DistinctCount * One, scan.nonNullCount) ELSE 0
    IN  [TotalRows |-> TotalRows, NonNullRows |-> scan.nonNullCount,
         NullRate |-> NullRate, DistinctCount |-> DistinctCount,
         UniquenessRatio |-> UniquenessRatio,
         IsPrimaryKey |-> /\ UniquenessRatio > Pct(PrimaryKeyUniquenessPct)
                          /\ NullRate < Pct(PrimaryKeyNullPct)]

\* Columns to profile: some rows without a value, then MaxDistinct or fewer
\* different values, then copies of the first value.  The profiled column is
\* the second one; a row without a value is short or holds a null spelling
\* or "Null", which is no null spelling.
MaxDistinct == 22
MaxDuplicates == 2
MaxBlanks == 2

Digits == <<"0", "1", "2", "3", "4", "5", "6", "7", "8", "9">>

ValueText(k) == <<Digits[((k \div 100) % 10) + 1], Digits[((k \div 10) % 10) + 1], Digits[(k % 10) + 1]>>

BlankRows ==
    {<<<<"x">>>>, <<<<"x">>, <<>>>>, <<<<"x">>, <<"n", "u", "l", "l">>>>,
     <<<<"x">>, <<"N", "U", "L", "L">>>>, <<<<"x">>, <<"N", "o", "n", "e">>>>,
     <<<<"x">>, <<"N", "u", "l", "l">>>>}

BlankTables == UNION {[1..n -> BlankRows] : n \in 0..MaxBlanks}

ProfiledRows(blanks, distinct, duplicates) ==
    blanks \o [k \in 1..distinct |-> <<<<"x">>, ValueText(k)>>]
           \o [k \in 1..(IF distinct > 0 THEN duplicates ELSE 0) |-> <<<<"x">>, ValueText(1)>>]

NextProfile ==
    \/ \E blanks \in BlankTables, distinct \in 0..MaxDistinct, duplicates \in 0..MaxDuplicates :
          /\ probe.fn = "none"
          /\ probe' = [fn |-> "ProfileColumn",
                       rows |-> ProfiledRows(blanks, distinct, duplicates), colIdx |-> 1,
                       result |-> ProfileColumn(ProfiledRows(blanks, distinct, duplicates), 1)]
          /\ UNCHANGED <<weightVars, calibVars, patternVars, feedbackVars, matchVars, rowVars,
                         saveVars, savesPending, persistCount, ackVars, fanVars, onceVars,
                   lockVars>>
    \/ ProbeReturn

(***************************************************************************)
(* LevenshteinRatio (similarity.go)                                        *)
(*                                                                         *)
(* A string is the sequence of its runes.  levenshtein works on runes;     *)
(* len(s) in LevenshteinRatio is the length in bytes of the UTF-8 form.    *)
(***************************************************************************)
\* the rune U+00E9, e with an acute accent: two bytes in UTF-8
EAcute == "e_acute"

\* bytes of the UTF-8 encoding of a rune
RuneLen(c) == IF c = EAcute THEN 2 ELSE 1

RECURSIVE ByteLen(_)
ByteLen(s) == IF s = <<>> THEN 0 ELSE RuneLen(Head(s)) + ByteLen(Tail(s))

\* the inner loop over j; row[j] of the code is row[j + 1] here
RECURSIVE levenshteinRow(_, _, _, _, _, _)
levenshteinRow(r1, r2, i, j, row, prev) ==
    IF j > Len(r2) THEN [row EXCEPT ![Len(r2) + 1] = prev]
    ELSE LET val == IF r1[i] = r2[j] THEN row[j]
                    ELSE Min(Min(row[j] + 1, prev + 1), row[j + 1] + 1)
         IN  levenshteinRow(r1, r2, i, j + 1, [row EXCEPT ![j] = prev], val)

\* the outer loop over i
RECURSIVE levenshteinFrom(_, _, _, _)
levenshteinFrom(r1, r2, i, row) ==
    IF i > Len(r1) THEN row[Len(r2) + 1]
    ELSE levenshteinFrom(r1, r2, i + 1, levenshteinRow(r1, r2, i, 1, row, i))

levenshtein(s1, s2) == levenshteinFrom(s1, s2, 1, [k \in 1..(Len(s2) + 1) |-> k - 1])

\* a ratio taken against the length of the first string alone
LevenshteinRatioByFirst(s1, s2) ==
    LET l1 == ToLower(s1)
        l2 == ToLower(s2)
        maxLen == ByteLen(l1)
    IN  IF maxLen = 0 THEN One ELSE One - RoundDiv(levenshtein(l1, l2) * One, maxLen)

LevenshteinRatio(s1, s2) ==
    LET l1 == ToLower(s1)
        l2 == ToLower(s2)
        maxLen == Max(ByteLen(l1), ByteLen(l2))
    IN  IF maxLen = 0 THEN One ELSE One - RoundDiv(levenshtein(l1, l2) * One, maxLen)

MaxNameLen == 3

\* runes of a column name: two letters, a capital, a two-byte letter
NameRunes == {"a", "b", "A", EAcute}

RECURSIVE NamesOfLen(_)
NamesOfLen(n) ==
    IF n = 0 THEN {<<>>}
    ELSE {Append(s, c) : s \in NamesOfLen(n - 1), c \in NameRunes}

Names == UNION {NamesOfLen(n) : n \in 0..MaxNameLen}

NextLevenshtein ==
    \/ \E s1 \in Names, s2 \in Names :
          /\ probe.fn = "none"
          /\ probe' = [fn |-> "LevenshteinRatio", s1 |-> s1, s2 |-> s2,
                       result |-> LevenshteinRatio(s1, s2)]
          /\ UNCHANGED <<weightVars, calibVars, patternVars, feedbackVars, matchVars, rowVars,
                         saveVars, savesPending, persistCount, ackVars, fanVars, onceVars,
                   lockVars>>
    \/ ProbeReturn

(***************************************************************************)
(* detectPattern (enhanced_similarity.go).  A cell is the sequence of its  *)
(* characters.  The library is a Go map from pattern name to regular       *)
(* expression; "for name, pattern := range s.patterns" visits it in an     *)
(* order that Go chooses anew for every loop, and so does the loop over    *)
(* patternCounts.                                                          *)
(***************************************************************************)
PatternNames ==
    {"email", "phone", "uuid", "date_iso", "date_us", "ip", "url", "currency", "zipcode"}

DigitChars == {Digits[i] : i \in DOMAIN Digits}
LetterChars == {UpperCase[i] : i \in DOMAIN UpperCase} \cup {LowerCase[i] : i \in DOMAIN LowerCase}
HexChars == DigitChars \cup {"a", "b", "c", "d", "e", "f", "A", "B", "C", "D", "E", "F"}
\* \s
SpaceChars == {" ", "\t", "\n", "\f", "\r"}

AllIn(s, class) == \A i \in DOMAIN s : s[i] \in class

\* s from position a on
From(s, a) == SubSeq(s, a, Len(s))

\* ^[a-zA-Z0-9._%+-]+@[a-zA-Z0-9.-]+\.[a-zA-Z]{2,}$
MatchEmail(val) ==
    \E a \in 2..Len(val) :
        /\ val[a] = "@"
        /\ AllIn(SubSeq(val, 1, a - 1), LetterChars \cup DigitChars \cup {".", "_", "%", "+", "-"})
        /\ \E d \in (a + 2)..(Len(val) - 2) :
               /\ val[d] = "."
               /\ AllIn(SubSeq(val, a + 1, d - 1), LetterChars \cup DigitChars \cup {".", "-"})
               /\ AllIn(From(val, d + 1), LetterChars)

\* ^[\+]?[(]?[0-9]{1,4}[)]?[-\s\./0-9]*$
MatchPhone(val) ==
    LET afterPlus  == IF val # <<>> /\ val[1] = "+" THEN From(val, 2) ELSE val
        afterParen == IF afterPlus # <<>> /\ afterPlus[1] = "(" THEN From(afterPlus, 2)
                      ELSE afterPlus
        tailClass  == DigitChars \cup SpaceChars \cup {"-", ".", "/"}
    IN  \E k \in 1..4 :
            /\ k <= Len(afterParen)
            /\ AllIn(SubSeq(afterParen, 1, k), DigitChars)
            /\ LET rest == From(afterParen, k + 1)
               IN  \/ AllIn(rest, tailClass)
                   \/ rest # <<>> /\ rest[1] = ")" /\ AllIn(From(rest, 2), tailClass)

\* ^[0-9a-fA-F]{8}-[0-9a-fA-F]{4}-[0-9a-fA-F]{4}-[0-9a-fA-F]{4}-[0-9a-fA-F]{12}$
MatchUUID(val) ==
    /\ Len(val) = 36
    /\ \A i \in 1..36 : IF i \in {9, 14, 19, 24} THEN val[i] = "-" ELSE val[i] \in HexChars

\* ^\d{4}-\d{2}-\d{2}$
MatchDateISO(val) ==
    /\ Len(val) = 10
    /\ \A i \in 1..10 : IF i \in {5, 8} THEN val[i] = "-" ELSE val[i] \in DigitChars

\* ^\d{2}/\d{2}/\d{4}$
MatchDateUS(val) ==
    /\ Len(val) = 10
    /\ \A i \in 1..10 : IF i \in {3, 6} THEN val[i] = "/" ELSE val[i] \in DigitChars

\* 25[0-5]|2[0-4][0-9]|[01]?[0-9][0-9]?
MatchOctet(s) ==
    /\ Len(s) \in 1..3
    /\ AllIn(s, DigitChars)
    /\ Len(s) = 3 =>
           \/ s[1] \in {"0", "1"}
           \/ s[1] = "2" /\ s[2] \in {"0", "1", "2", "3", "4"}
           \/ s[1] = "2" /\ s[2] = "5" /\ s[3] \in {"0", "1", "2", "3", "4", "5"}

\* ^(?:(?:octet)\.){3}(?:octet)$
MatchIP(val) ==
    \E a \in 2..Len(val), b \in 4..Len(val), c \in 6..Len(val) :
        /\ a < b /\ b < c /\ c < Len(val)
        /\ val[a] = "." /\ val[b] = "." /\ val[c] = "."
        /\ MatchOctet(SubSeq(val, 1, a - 1))
        /\ MatchOctet(SubSeq(val, a + 1, b - 1))
        /\ MatchOctet(SubSeq(val, b + 1, c - 1))
        /\ MatchOctet(From(val, c + 1))

\* ^https?://
MatchURL(val) ==
    \/ Len(val) >= 7 /\ SubSeq(val, 1, 7) = <<"h", "t", "t", "p", ":", "/", "/">>
    \/ Len(val) >= 8 /\ SubSeq(val, 1, 8) = <<"h", "t", "t", "p", "s", ":", "/", "/">>

\* the currency signs of the class that opens the currency expression; of them
\* the cells in use hold the dollar sign only
CurrencySigns == {"$"}

\* the first position of s that holds no white space
RECURSIVE SkipSpace(_, _)
SkipSpace(s, i) == IF i <= Len(s) /\ s[i] \in SpaceChars THEN SkipSpace(s, i + 1) ELSE i

\* ^[sign]?\s*\d+([,.]\d{2})?$
MatchCurrency(val) ==
    LET afterSign == IF val # <<>> /\ val[1] \in CurrencySigns THEN From(val, 2) ELSE val
        amount    == From(afterSign, SkipSpace(afterSign, 1))
        n         == Len(amount)
    IN  /\ n >= 1
        /\ \/ AllIn(amount, DigitChars)
           \/ /\ n >= 4
              /\ amount[n - 2] \in {",", "."}
              /\ AllIn(SubSeq(amount, 1, n - 3), DigitChars)
              /\ AllIn(From(amount, n - 1), DigitChars)

\* ^\d{5}(-\d{4})?$
MatchZipcode(val) ==
    \/ Len(val) = 5 /\ AllIn(val, DigitChars)
    \/ /\ Len(val) = 10
       /\ \A i \in 1..10 : IF i = 6 THEN val[i] = "-" ELSE val[i] \in DigitChars

\* s.patterns[name].MatchString(val), for the library of buildPatternMap
MatchString(name, val) ==
    CASE name = "email"    -> MatchEmail(val)
      [] name = "phone"    -> MatchPhone(val)
      [] name = "uuid"     -> MatchUUID(val)
      [] name = "date_iso" -> MatchDateISO(val)
      [] name = "date_us"  -> MatchDateUS(val)
      [] name = "ip"       -> MatchIP(val)
      [] name = "url"      -> MatchURL(val)
      [] name = "currency" -> MatchCurrency(val)
      [] name = "zipcode"  -> MatchZipcode(val)

\* the inner loop, were the library visited in one fixed (alphabetical) order
FirstMatchingPattern(val) ==
    LET order == <<"currency", "date_iso", "date_us", "email", "ip", "phone", "url",
                   "uuid", "zipcode">>
        hits  == {k \in DOMAIN order : MatchString(order[k], val)}
    IN  IF hits = {} THEN {} ELSE {order[CHOOSE k \in hits : \A j \in hits : k <= j]}

\* the names the inner loop can stop at for val: those whose expression matches
MatchingPatterns(val) == {name \in PatternNames : MatchString(name, val)}

\* threshold := int(float64(sampleSize) * 0.6): for sampleSize up to 50 the
\* product is within half a unit in the last place of sampleSize * 6 / 10
Threshold(sampleSize) == (sampleSize * 6) \div 10

\* the contents patternCounts can have after rows 0..sampleSize-1, from the
\* contents it can have before row i (0 for a name that is not in the map)
RECURSIVE CountPatterns(_, _, _, _, _)
CountPatterns(rows, colIdx, i, sampleSize, counts) ==
    IF i >= sampleSize THEN counts
    ELSE LET row  == rows[i + 1]
             hits == IF colIdx >= Len(row) \/ row[colIdx + 1] = <<>> THEN {}
                     ELSE MatchingPatterns(row[colIdx + 1])
         IN  IF hits = {} THEN CountPatterns(rows, colIdx, i + 1, sampleSize, counts)
             ELSE CountPatterns(rows, colIdx, i + 1, sampleSize,
                      {[c EXCEPT ![name] = @ + 1] : c \in counts, name \in hits})

\* the values the final loop can return for the contents c of patternCounts
DominantPatterns(c, threshold) ==
    LET dominant == {name \in PatternNames : c[name] > 0 /\ c[name] >= threshold}
    IN  IF dominant = {} THEN {""} ELSE dominant

\* detectPattern(df, colIdx): the values a call can return
detectPattern(rows, colIdx) ==
    IF Len(rows) = 0 THEN {""}
    ELSE LET sampleSize == Min(PatternSampleSize, Len(rows))
             finals     == CountPatterns(rows, colIdx, 0, sampleSize,
                                         {[name \in PatternNames |-> 0]})
         IN  UNION {DominantPatterns(c, Threshold(sampleSize)) : c \in finals}

\* step 2 of compareColumns: the pattern scores a comparison of column col1Idx
\* of rows1 with column col2Idx of rows2 can come to
patternScores(rows1, col1Idx, rows2, col2Idx) ==
    {IF pattern1 # "" /\ pattern1 = pattern2 THEN Pct(90) ELSE 0 :
        pattern1 \in detectPattern(rows1, col1Idx), pattern2 \in detectPattern(rows2, col2Idx)}

\* Calls of detectPattern on column 0 of a frame: every frame of up to
\* MaxSampleRows rows, and frames of 5, 50 and 52 rows around the threshold.
MaxSampleRows == 3

CellZip == <<"1", "2", "3", "4", "5">>
CellDate == <<"2", "0", "2", "4", "-", "0", "1", "-", "0", "5">>
CellEmail == <<"a", "@", "b", ".", "c", "o">>
CellWord == <<"h", "e", "l", "l", "o">>

\* a row with one of the cells, with an empty cell, or too short for the column
SampleRows == {<<CellZip>>, <<CellDate>>, <<CellEmail>>, <<CellWord>>, <<<<>>>>, <<>>}

\* n rows holding a, then m rows holding b
Column(a, n, b, m) == [i \in 1..(n + m) |-> IF i <= n THEN <<a>> ELSE <<b>>]

LongColumns ==
    {Column(CellEmail, 3, CellWord, 2), Column(CellEmail, 2, CellWord, 3),
     Column(CellEmail, 30, CellWord, 20), Column(CellEmail, 29, CellWord, 21),
     Column(CellEmail, 30, CellWord, 22), Column(CellWord, 22, CellEmail, 30),
     Column(CellZip, 50, CellWord, 0), Column(CellZip, 25, CellDate, 25)}

SampleColumns == UNION {[1..n -> SampleRows] : n \in 0..MaxSampleRows} \cup LongColumns

NextDetect ==
    \/ \E rows \in SampleColumns :
          /\ probe.fn = "none"
          /\ \E pattern \in detectPattern(rows, 0) :
                 probe' = [fn |-> "detectPattern", rows |-> rows, colIdx |-> 0,
                           results |-> <<pattern>>]
          /\ UNCHANGED <<weightVars, calibVars, patternVars, feedbackVars, matchVars, rowVars,
                         saveVars, savesPending, persistCount, ackVars, fanVars, onceVars,
                         lockVars>>
    \/ /\ probe.fn = "detectPattern"
       /\ Len(probe.results) = 1
       /\ \E pattern \in detectPattern(probe.rows, probe.colIdx) :
              probe' = [probe EXCEPT !.results = Append(@, pattern)]
       /\ UNCHANGED <<weightVars, calibVars, patternVars, feedbackVars, matchVars, rowVars,
                      saveVars, savesPending, persistCount, ackVars, fanVars, onceVars,
                      lockVars>>
    \/ ProbeReturn

(***************************************************************************)
(* FormatNormalizer.DetectFormat (format_normalizer.go).  A value is the   *)
(* sequence of its characters, all of them ASCII, so that len() counts     *)
(* characters.  A layout of time.Parse is matched element by element:      *)
(* "2006" four digits, "01" and "02" two digits, "2" one or two digits,    *)
(* "Jan" and "January" a month name in any case, "15", "04", "05" two      *)
(* digits; the date must exist (month 1..12, day within the month).        *)
(***************************************************************************)
DigitValue(c) == CHOOSE v \in 0..9 : Digits[v + 1] = c

\* the number a sequence of digits writes
RECURSIVE Atoi(_)
Atoi(s) == IF s = <<>> THEN 0 ELSE 10 * Atoi(SubSeq(s, 1, Len(s) - 1)) + DigitValue(s[Len(s)])

IsNumber(s, width) == Len(s) = width /\ AllIn(s, DigitChars)

\* daysIn(month, year)
DaysIn(month, year) ==
    IF month = 2
    THEN (IF year % 4 = 0 /\ (year % 100 # 0 \/ year % 400 = 0) THEN 29 ELSE 28)
    ELSE IF month \in {4, 6, 9, 11} THEN 30 ELSE 31

\* year, month and day written in digits name a day of the calendar
ValidDate(year, month, day) ==
    /\ IsNumber(year, 4)
    /\ Len(month) = 2 /\ AllIn(month, DigitChars) /\ Atoi(month) \in 1..12
    /\ Len(day) \in 1..2 /\ AllIn(day, DigitChars)
    /\ Atoi(day) >= 1 /\ Atoi(day) <= DaysIn(Atoi(month), Atoi(year))

\* the number of the month as two digits
TwoDigits(n) == <<Digits[(n \div 10) + 1], Digits[(n % 10) + 1]>>

MonthNames ==
    <<<<"j", "a", "n", "u", "a", "r", "y">>, <<"f", "e", "b", "r", "u", "a", "r", "y">>,
      <<"m", "a", "r", "c", "h">>, <<"a", "p", "r", "i", "l">>, <<"m", "a", "y">>,
      <<"j", "u", "n", "e">>, <<"j", "u", "l", "y">>, <<"a", "u", "g", "u", "s", "t">>,
      <<"s", "e", "p", "t", "e", "m", "b", "e", "r">>, <<"o", "c", "t", "o", "b", "e", "r">>,
      <<"n", "o", "v", "e", "m", "b", "e", "r">>, <<"d", "e", "c", "e", "m", "b", "e", "r">>>>

\* "2006-01-02" and "2006/01/02"
ParseYearFirst(value, sep) ==
    /\ Len(value) = 10
    /\ value[5] = sep /\ value[8] = sep
    /\ ValidDate(SubSeq(value, 1, 4), SubSeq(value, 6, 7), SubSeq(value, 9, 10))

\* "01/02/2006"
ParseUS(value) ==
    /\ Len(value) = 10
    /\ value[3] = "/" /\ value[6] = "/"
    /\ ValidDate(SubSeq(value, 7, 10), SubSeq(value, 1, 2), SubSeq(value, 4, 5))

\* "02/01/2006"
ParseEU(value) ==
    /\ Len(value) = 10
    /\ value[3] = "/" /\ value[6] = "/"
    /\ ValidDate(SubSeq(value, 7, 10), SubSeq(value, 4, 5), SubSeq(value, 1, 2))

\* "02-Jan-2006"
ParseText(value) ==
    /\ Len(value) = 11
    /\ value[3] = "-" /\ value[7] = "-"
    /\ IsNumber(SubSeq(value, 1, 2), 2)
    /\ \E m \in DOMAIN MonthNames :
           /\ ToLower(SubSeq(value, 4, 6)) = SubSeq(MonthNames[m], 1, 3)
           /\ ValidDate(SubSeq(value, 8, 11), TwoDigits(m), SubSeq(value, 1, 2))

\* "January 2, 2006"
ParseFullText(value) ==
    \E m \in DOMAIN MonthNames, d \in 1..2 :
        LET n == Len(MonthNames[m])
        IN  /\ Len(value) = n + 1 + d + 2 + 4
            /\ ToLower(SubSeq(value, 1, n)) = MonthNames[m]
            /\ value[n + 1] = " "
            /\ value[n + d + 2] = "," /\ value[n + d + 3] = " "
            /\ ValidDate(From(value, n + d + 4), TwoDigits(m), SubSeq(value, n + 2, n + d + 1))

\* "15:04:05" at position p
ValidClock(value, p) ==
    /\ Len(value) >= p + 7
    /\ value[p + 2] = ":" /\ value[p + 5] = ":"
    /\ IsNumber(SubSeq(value, p, p + 1), 2) /\ Atoi(SubSeq(value, p, p + 1)) <= 23
    /\ IsNumber(SubSeq(value, p + 3, p + 4), 2) /\ Atoi(SubSeq(value, p + 3, p + 4)) <= 59
    /\ IsNumber(SubSeq(value, p + 6, p + 7), 2) /\ Atoi(SubSeq(value, p + 6, p + 7)) <= 59

\* "2006-01-02 15:04:05", with the fraction of a second time.Parse accepts
\* after the seconds
ParseSQL(value) ==
    /\ Len(value) >= 19
    /\ ParseYearFirst(SubSeq(value, 1, 10), "-")
    /\ value[11] = " "
    /\ ValidClock(value, 12)
    /\ LET rest == From(value, 20)
       IN  \/ rest = <<>>
           \/ Len(rest) >= 2 /\ rest[1] \in {".", ","} /\ AllIn(From(rest, 2), DigitChars)

\* the zone of time.RFC3339: "Z" or a signed "07:00"
ValidZone(zone) ==
    \/ zone = <<"Z">>
    \/ /\ Len(zone) = 6
       /\ zone[1] \in {"+", "-"} /\ zone[4] = ":"
       /\ IsNumber(SubSeq(zone, 2, 3), 2) /\ Atoi(SubSeq(zone, 2, 3)) <= 23
       /\ IsNumber(SubSeq(zone, 5, 6), 2) /\ Atoi(SubSeq(zone, 5, 6)) <= 59

\* time.RFC3339, "2006-01-02T15:04:05Z07:00"
ParseRFC3339(value) ==
    /\ Len(value) >= 20
    /\ ParseYearFirst(SubSeq(value, 1, 10), "-")
    /\ value[11] = "T"
    /\ ValidClock(value, 12)
    /\ \E z \in 20..Len(value) :
           /\ \/ z = 20
              \/ z >= 22 /\ value[20] \in {".", ","} /\ AllIn(SubSeq(value, 21, z - 1), DigitChars)
           /\ ValidZone(From(value, z))

\* normalizeDate(value) != "": one of the eight layouts parses the value
IsDate(value) ==
    \/ ParseYearFirst(value, "-")
    \/ ParseUS(value)
    \/ ParseEU(value)
    \/ ParseYearFirst(value, "/")
    \/ ParseText(value)
    \/ ParseFullText(value)
    \/ ParseRFC3339(value)
    \/ ParseSQL(value)

\* phonePattern, [\s\-\(\)\+\.]
PhoneFormatting == SpaceChars \cup {"-", "(", ")", "+", "."}

\* phonePattern.ReplaceAllString(value, "")
StripFormatting(value) == SelectSeq(value, LAMBDA c : c \notin PhoneFormatting)

\* normalizePhone(value)
normalizePhone(value) ==
    LET normalized == StripFormatting(value)
    IN  IF \A i \in DOMAIN value : value[i] \notin DigitChars THEN <<>>
        ELSE IF Len(normalized) >= 10 /\ Len(normalized) <= 15 THEN normalized
        ELSE <<>>

\* DetectFormat(value): "date", "phone", or one of "number", "name" and
\* "text", which are not told apart here
DetectFormat(value) ==
    IF IsDate(value) THEN "date"
    ELSE IF normalizePhone(value) # <<>> THEN "phone"
    ELSE "number, name or text"

\* Calls of DetectFormat on values put together from up to MaxParts parts
MaxParts == 3

ValueParts ==
    {<<"5", "5", "5">>, <<"1", "2", "3", "-", "4", "5", "6", "7">>,
     <<"(", "5", "5", "5", ")", " ">>, <<"+", "1", ".">>,
     <<"1", "2", "3", "4", "5", "6", "7", "8">>, <<"c", "u", "s", "t">>,
     <<"2", "0", "2", "4", "-", "0", "1", "-", "0", "5">>, <<"0", "2", "/", "3", "0", "/">>,
     <<"2", "0", "2", "4">>, <<" ", "1", "0", ":", "3", "0", ":", "0", "0">>}

RECURSIVE ValuesOfParts(_)
ValuesOfParts(n) ==
    IF n = 0 THEN {<<>>}
    ELSE {v \o p : v \in ValuesOfParts(n - 1), p \in ValueParts}

FormatValues == UNION {ValuesOfParts(n) : n \in 0..MaxParts}

NextFormat ==
    \/ \E value \in FormatValues :
          /\ probe.fn = "none"
          /\ probe' = [fn |-> "DetectFormat", value |-> value, result |-> DetectFormat(value)]
          /\ UNCHANGED <<weightVars, calibVars, patternVars, feedbackVars, matchVars, rowVars,
                         saveVars, savesPending, persistCount, ackVars, fanVars, onceVars,
                         lockVars>>
    \/ ProbeReturn

(***************************************************************************)
(* The accessors: GetFeedbackSystem, GetConfidenceCalibrator,              *)
(* GetPatternLearner, GetAdaptiveLearner.  Each runs                       *)
(*     once.Do(func() { instance = &T{defaults}; instance.load() })        *)
(* and returns the package variable.  sync.Once lets the first caller run  *)
(* the function and makes every other caller wait until it has returned.   *)
(* A thread is a request and the task it starts: it calls the accessors in *)
(* the order of SubmitMatchFeedback and triggerMLLearning.  The package    *)
(* variable of accessor a is nil while built[a] = 0 and points to instance *)
(* built[a] afterwards.                                                    *)
(***************************************************************************)
MaxThreads == 2

Threads == 1..MaxThreads

AccessOrder ==
    <<"GetFeedbackSystem", "GetConfidenceCalibrator", "GetPatternLearner",
      "GetAdaptiveLearner">>

Accessors == {AccessOrder[k] : k \in DOMAIN AccessOrder}

Calling(t) == AccessOrder[threads[t].at]

\* "return instance": the caller takes what the package variable points to
Receive(t) ==
    threads' = [threads EXCEPT ![t] =
                   [@ EXCEPT !.pc = "ready", !.at = @ + 1,
                             !.got = [@ EXCEPT ![Calling(t)] = built[Calling(t)]]]]

\* an accessor without sync.Once: "if instance == nil { build and load }"
EnterDoUnguarded(t) ==
    /\ threads[t].at \in DOMAIN AccessOrder
    /\ threads[t].pc = "ready"
    /\ IF built[Calling(t)] = 0
       THEN /\ threads' = [threads EXCEPT ![t].pc = "constructing"]
            /\ onceState' = [onceState EXCEPT ![Calling(t)] = "running"]
       ELSE /\ Receive(t)
            /\ UNCHANGED onceState
    /\ UNCHANGED <<built, loadsRun>>

\* once.Do: done already, return; first caller, run the function; otherwise
\* wait for the caller that is running it
EnterDo(t) ==
    /\ threads[t].at \in DOMAIN AccessOrder
    /\ threads[t].pc = "ready"
    /\ IF onceState[Calling(t)] = "done"
       THEN /\ Receive(t)
            /\ UNCHANGED onceState
       ELSE IF onceState[Calling(t)] = "fresh"
       THEN /\ threads' = [threads EXCEPT ![t].pc = "constructing"]
            /\ onceState' = [onceState EXCEPT ![Calling(t)] = "running"]
       ELSE /\ threads' = [threads EXCEPT ![t].pc = "blocked",
                                          ![t].waited = @ \cup {Calling(t)}]
            /\ UNCHANGED onceState
    /\ UNCHANGED <<built, loadsRun>>

\* instance = &T{...}: the package variable points to a new instance
Construct(t) ==
    /\ threads[t].pc = "constructing"
    /\ built' = [built EXCEPT ![Calling(t)] = @ + 1]
    /\ threads' = [threads EXCEPT ![t].pc = "loading"]
    /\ UNCHANGED <<onceState, loadsRun>>

\* instance.load() returns, the function returns, Do marks the Once done
FinishLoad(t) ==
    /\ threads[t].pc = "loading"
    /\ loadsRun' = [loadsRun EXCEPT ![Calling(t)] = @ + 1]
    /\ onceState' = [onceState EXCEPT ![Calling(t)] = "done"]
    /\ Receive(t)
    /\ UNCHANGED built

\* a waiting caller goes on once the Once is done
Unblock(t) ==
    /\ threads[t].pc = "blocked"
    /\ onceState[Calling(t)] = "done"
    /\ Receive(t)
    /\ UNCHANGED <<onceState, built, loadsRun>>

InitOnce ==
    /\ onceState = [a \in Accessors |-> "fresh"]
    /\ built = [a \in Accessors |-> 0]
    /\ loadsRun = [a \in Accessors |-> 0]
    /\ threads = [t \in Threads |->
                     [at |-> 1, pc |-> "ready", got |-> [a \in Accessors |-> 0],
                      waited |-> {}]]

NextOnce ==
    \/ \E t \in Threads :
          /\ EnterDo(t)
          /\ UNCHANGED <<weightVars, calibVars, patternVars, feedbackVars, matchVars,
                         rowVars, saveVars, savesPending, persistCount, ackVars, fanVars,
                         probeVars, lockVars>>
    \/ \E t \in Threads :
          /\ Construct(t)
          /\ UNCHANGED <<weightVars, calibVars, patternVars, feedbackVars, matchVars,
                         rowVars, saveVars, savesPending, persistCount, ackVars, fanVars,
                         probeVars, lockVars>>
    \/ \E t \in Threads :
          /\ FinishLoad(t)
          /\ UNCHANGED <<weightVars, calibVars, patternVars, feedbackVars, matchVars,
                         rowVars, saveVars, savesPending, persistCount, ackVars, fanVars,
                         probeVars, lockVars>>
    \/ \E t \in Threads :
          /\ Unblock(t)
          /\ UNCHANGED <<weightVars, calibVars, patternVars, feedbackVars, matchVars,
                         rowVars, saveVars, savesPending, persistCount, ackVars, fanVars,
                         probeVars, lockVars>>

(***************************************************************************)
(* Detached saves, damaged snapshots and restarts                          *)
(***************************************************************************)
feedbackFileName == "matching_feedback.json"

\* what save() marshals while it holds the read lock: the state as it is now
Marshalled(file) ==
    IF file = adaptiveWeightsFile THEN MarshalAdaptive(weights, trainingHistory)
    ELSE IF file = confidenceCalibrationFile THEN MarshalCalibration(buckets, history)
    ELSE MarshalPatterns(patterns, tokenMappings)

\* save(), up to RUnlock: marshal under the read lock; on an error return
SaveMarshal(file) ==
    /\ savesPending[file] > 0
    /\ savesPending' = [savesPending EXCEPT ![file] = @ - 1]
    /\ savesWriting' =
           IF Marshalled(file).kind = "error" THEN savesWriting
           ELSE Append(savesWriting, [file |-> file, data |-> Marshalled(file)])
    /\ UNCHANGED disk

\* save(), after RUnlock: os.WriteFile replaces the content of the file
SaveWrite(i) ==
    /\ i \in DOMAIN savesWriting
    /\ disk' = [disk EXCEPT ![savesWriting[i].file] = savesWriting[i].data]
    /\ savesWriting' = [k \in 1..(Len(savesWriting) - 1) |->
                           IF k < i THEN savesWriting[k] ELSE savesWriting[k + 1]]
    /\ UNCHANGED savesPending

\* the bytes of a snapshot are damaged (a write cut short, a disk fault)
CorruptSnapshot(file) ==
    IF file = feedbackFileName
    THEN /\ feedbackFile.kind = "json"
         /\ feedbackFile' = Corrupt
         /\ UNCHANGED <<matches, corrections, tasks, disk>>
    ELSE /\ disk[file].kind = "json"
         /\ disk' = [disk EXCEPT ![file] = Corrupt]
         /\ UNCHANGED feedbackVars

\* The process stops and starts again: every goroutine is gone, the uploaded
\* frames are gone, and each Get... accessor builds its learner and loads it.
Restart ==
    /\ weights' = loadAdaptive(disk[adaptiveWeightsFile]).weights
    /\ trainingHistory' = loadAdaptive(disk[adaptiveWeightsFile]).trainingHistory
    /\ buckets' = loadCalibration(disk[confidenceCalibrationFile]).buckets
    /\ history' = loadCalibration(disk[confidenceCalibrationFile]).history
    /\ patterns' = loadPatterns(disk[patternLearningFile]).patterns
    /\ tokenMappings' = loadPatterns(disk[patternLearningFile]).tokenMappings
    /\ matches' = loadFeedback(feedbackFile).matches
    /\ corrections' = loadFeedback(feedbackFile).corrections
    /\ tasks' = <<>>
    /\ savesPending' = [file \in LearnerFiles |-> 0]
    /\ savesWriting' = <<>>
    /\ request' = NoData
    /\ results' = <<>>
    /\ df1' = NoFrame
    /\ df2' = NoFrame
    /\ outcome' = [status |-> "idle", compared |-> 0]
    /\ calls' = [c \in Callers |-> IdleCall]
    /\ taskPc' = <<>>
    /\ onceState' = [a \in Accessors |-> "fresh"]
    /\ built' = [a \in Accessors |-> 0]
    /\ loadsRun' = [a \in Accessors |-> 0]
    /\ threads' = [t \in Threads |->
                      [at |-> 1, pc |-> "ready", got |-> [a \in Accessors |-> 0],
                       waited |-> {}]]
    /\ mutex' = [file \in LearnerFiles \cup {feedbackFileName} |-> "free"]
    /\ inProgress' = [file \in LearnerFiles \cup {feedbackFileName} |-> [kind |-> "none"]]
    /\ UNCHANGED <<disk, feedbackFile, updateCount, learnCount, probeVars>>

(***************************************************************************)
(* The mutations step by step.  Each takes the write lock of its learner   *)
(* (mutex.Lock()), changes the first field, then the second, starts the    *)
(* detached save and unlocks on return (defer mutex.Unlock()); AddFeedback *)
(* unlocks and then calls save() itself.  save() marshals under RLock,     *)
(* which it gets only while no writer holds the lock.                      *)
(***************************************************************************)
Mutexes == LearnerFiles \cup {feedbackFileName}

NoMutation == [kind |-> "none"]

InitLocks ==
    /\ mutex = [file \in Mutexes |-> "free"]
    /\ inProgress = [file \in Mutexes |-> NoMutation]

Lock(file, mutation) ==
    /\ mutex[file] = "free"
    /\ mutex' = [mutex EXCEPT ![file] = "w"]
    /\ inProgress' = [inProgress EXCEPT ![file] = mutation]

Unlock(file, after) ==
    /\ mutex' = [mutex EXCEPT ![file] = "free"]
    /\ inProgress' = [inProgress EXCEPT ![file] = after]

\* a save that marshals without asking for the lock
RLockSkipped(file) == file \in Mutexes

\* mutex.RLock() returns: no writer holds the lock
RLock(file) == mutex[file] = "free"

\* UpdateWeights up to the normalised weights (lines 134-187)
UpdateWeightsWeights(batch) ==
    /\ Len(batch) > 0
    /\ Lock(adaptiveWeightsFile,
            [kind |-> "UpdateWeights",
             entry |-> [Loss |-> Mean(Accumulate(weights, batch, 1).Loss, Len(batch)),
                        Weights |-> UpdatedWeights(weights, batch),
                        BatchSize |-> Len(batch)]])
    /\ weights' = UpdatedWeights(weights, batch)
    /\ UNCHANGED <<trainingHistory, updateCount, savesPending>>

\* UpdateWeights from the history entry to the return (lines 189-208)
UpdateWeightsHistory ==
    /\ inProgress[adaptiveWeightsFile].kind = "UpdateWeights"
    /\ trainingHistory' = AppendCapped(trainingHistory, inProgress[adaptiveWeightsFile].entry,
                                       MaxTrainingHistory)
    /\ updateCount' = updateCount + 1
    /\ StartSave(adaptiveWeightsFile)
    /\ Unlock(adaptiveWeightsFile, NoMutation)
    /\ UNCHANGED weights

\* Update up to the bucket's new factor (lines 125-153)
UpdateBucket(conf, actualCorrect) ==
    LET bs2 == [buckets EXCEPT ![BucketIndex(conf)] = UpdatedBucket(@, actualCorrect)]
    IN  /\ Lock(confidenceCalibrationFile,
                [kind |-> "Update",
                 entry |-> [PredictedConf |-> conf, ActualCorrect |-> actualCorrect,
                            CalibratedConf |-> calibrateInternal(bs2, conf)]])
        /\ buckets' = bs2
        /\ UNCHANGED <<history, savesPending>>

\* Update from the history entry to the return (lines 155-173)
UpdateHistory ==
    /\ inProgress[confidenceCalibrationFile].kind = "Update"
    /\ history' = AppendCapped(history, inProgress[confidenceCalibrationFile].entry,
                               MaxCalibrationHistory)
    /\ StartSave(confidenceCalibrationFile)
    /\ Unlock(confidenceCalibrationFile, NoMutation)
    /\ UNCHANGED buckets

\* LearnFromPositive and LearnFromNegative up to the rule (lines 111-139, 174-189)
LearnRule(positive, col1, col2) ==
    /\ Lock(patternLearningFile,
            [kind |-> "Learn", positive |-> positive, col1 |-> col1, col2 |-> col2])
    /\ patterns' = IF positive
                   THEN PositiveRules(patterns, ColumnPattern[col1], ColumnPattern[col2])
                   ELSE NegativeRules(patterns, ColumnPattern[col1], ColumnPattern[col2])
    /\ UNCHANGED <<tokenMappings, learnCount, savesPending>>

\* LearnFromPositive and LearnFromNegative from the token loop to the return
LearnTokenMappings ==
    /\ inProgress[patternLearningFile].kind = "Learn"
    /\ LET m == inProgress[patternLearningFile]
           pairs == TokenPairs(ColumnTokens[m.col1], ColumnTokens[m.col2])
       IN  tokenMappings' = IF m.positive THEN LearnTokens(tokenMappings, pairs, 1)
                            ELSE DecayTokens(tokenMappings, pairs, 1)
    /\ learnCount' = learnCount + 1
    /\ StartSave(patternLearningFile)
    /\ Unlock(patternLearningFile, NoMutation)
    /\ UNCHANGED patterns

\* AddFeedback up to the append (lines 115-118); one caller at a time
AddFeedbackAppend(entry) ==
    /\ inProgress[feedbackFileName].kind = "none"
    /\ Lock(feedbackFileName, [kind |-> "AddFeedback", entry |-> entry])
    /\ matches' = Append(matches, entry)
    /\ UNCHANGED <<corrections, feedbackFile, tasks>>

\* AddFeedback from the correction to the unlock (lines 120-140)
AddFeedbackCorrection ==
    /\ inProgress[feedbackFileName].kind = "AddFeedback"
    /\ corrections' = UpsertCorrection(corrections, inProgress[feedbackFileName].entry)
    /\ Unlock(feedbackFileName,
              [kind |-> "save", entry |-> inProgress[feedbackFileName].entry,
               recentBatch |-> RecentFeedback(matches)])
    /\ UNCHANGED <<matches, feedbackFile, tasks>>

\* AddFeedback from f.save() to the return (lines 142-153)
AddFeedbackSave ==
    /\ inProgress[feedbackFileName].kind = "save"
    /\ RLock(feedbackFileName)
    /\ feedbackFile' = LET data == MarshalFeedback(matches, corrections)
                       IN  IF data.kind = "error" THEN feedbackFile ELSE data
    /\ tasks' = Append(tasks, [feedback |-> inProgress[feedbackFileName].entry,
                               recentBatch |-> inProgress[feedbackFileName].recentBatch])
    /\ inProgress' = [inProgress EXCEPT ![feedbackFileName] = NoMutation]
    /\ UNCHANGED <<matches, corrections, mutex>>

\* the detached save() of a learner, up to RUnlock
SaveMarshalRLocked(file) ==
    /\ RLock(file)
    /\ SaveMarshal(file)

MaxLockedOps == 3

LockedMutation ==
    /\ persistCount < MaxLockedOps
    /\ persistCount' = persistCount + 1

NextLocked ==
    \/ /\ LockedMutation
       /\ UpdateWeightsWeights(SteadyBatch)
       /\ UNCHANGED <<calibVars, patternVars, feedbackVars, matchVars, rowVars, saveVars,
                      ackVars, fanVars, onceVars, probeVars>>
    \/ /\ UpdateWeightsHistory
       /\ UNCHANGED <<calibVars, patternVars, feedbackVars, matchVars, rowVars, saveVars,
                      persistCount, ackVars, fanVars, onceVars, probeVars>>
    \/ \E actualCorrect \in BOOLEAN :
          /\ LockedMutation
          /\ UpdateBucket(95 * Cent, actualCorrect)
          /\ UNCHANGED <<weightVars, patternVars, feedbackVars, matchVars, rowVars, saveVars,
                         ackVars, fanVars, onceVars, probeVars>>
    \/ /\ UpdateHistory
       /\ UNCHANGED <<weightVars, patternVars, feedbackVars, matchVars, rowVars, saveVars,
                      persistCount, ackVars, fanVars, onceVars, probeVars>>
    \/ \E positive \in BOOLEAN :
          /\ LockedMutation
          /\ LearnRule(positive, ColUserId, ColCustId)
          /\ UNCHANGED <<weightVars, calibVars, feedbackVars, matchVars, rowVars, saveVars,
                         ackVars, fanVars, onceVars, probeVars>>
    \/ /\ LearnTokenMappings
       /\ UNCHANGED <<weightVars, calibVars, feedbackVars, matchVars, rowVars, saveVars,
                      persistCount, ackVars, fanVars, onceVars, probeVars>>
    \/ /\ LockedMutation
       /\ AddFeedbackAppend(PersistEntry)
       /\ UNCHANGED <<weightVars, calibVars, patternVars, matchVars, rowVars, saveVars,
                      savesPending, ackVars, fanVars, onceVars, probeVars>>
    \/ /\ AddFeedbackCorrection
       /\ UNCHANGED <<weightVars, calibVars, patternVars, matchVars, rowVars, saveVars,
                      savesPending, persistCount, ackVars, fanVars, onceVars, probeVars>>
    \/ /\ AddFeedbackSave
       /\ UNCHANGED <<weightVars, calibVars, patternVars, matchVars, rowVars, saveVars,
                      savesPending, persistCount, ackVars, fanVars, onceVars, probeVars>>
    \/ \E file \in LearnerFiles :
          /\ SaveMarshalRLocked(file)
          /\ UNCHANGED <<weightVars, calibVars, patternVars, feedbackVars, matchVars,
                         rowVars, persistCount, ackVars, fanVars, onceVars, probeVars,
                         lockVars>>
    \/ \E i \in DOMAIN savesWriting :
          /\ SaveWrite(i)
          /\ UNCHANGED <<weightVars, calibVars, patternVars, feedbackVars, matchVars,
                         rowVars, persistCount, ackVars, fanVars, onceVars, probeVars,
                         lockVars>>

(***************************************************************************)
(* Inputs of the persistence runs                                          *)
(***************************************************************************)
MaxPersistOps == 3

\* nine confirmed strong matches and one entry whose name score is 1e200
OverflowBatch ==
    [i \in 1..BatchLen |->
        [NameSimilarity |-> IF i = BatchLen THEN Huge ELSE One, DataSimilarity |-> One,
         PatternScore |-> Pct(90), IsCorrect |-> TRUE]]

PersistBatches == {SteadyBatch, OverflowBatch}

Mutation ==
    /\ persistCount < MaxPersistOps
    /\ persistCount' = persistCount + 1

NextPersist ==
    \/ \E batch \in PersistBatches :
          /\ Mutation
          /\ UpdateWeights(batch)
          /\ UNCHANGED <<calibVars, patternVars, feedbackVars, matchVars, rowVars, saveVars,
                         ackVars, fanVars, onceVars, probeVars, lockVars>>
    \/ \E actualCorrect \in BOOLEAN :
          /\ Mutation
          /\ Update(95 * Cent, actualCorrect)
          /\ UNCHANGED <<weightVars, patternVars, feedbackVars, matchVars, rowVars, saveVars,
                         ackVars, fanVars, onceVars, probeVars, lockVars>>
    \/ /\ Mutation
       /\ LearnFromPositive(ColUserId, ColCustId)
       /\ UNCHANGED <<weightVars, calibVars, feedbackVars, matchVars, rowVars, saveVars,
                      ackVars, fanVars, onceVars, probeVars, lockVars>>
    \/ /\ Mutation
       /\ LearnFromNegative(ColUserId, ColCustId)
       /\ UNCHANGED <<weightVars, calibVars, feedbackVars, matchVars, rowVars, saveVars,
                      ackVars, fanVars, onceVars, probeVars, lockVars>>
    \/ /\ Mutation
       /\ AddFeedback(PersistEntry)
       /\ UNCHANGED <<weightVars, calibVars, patternVars, matchVars, rowVars, saveVars,
                      savesPending,
                      ackVars, fanVars, onceVars, probeVars, lockVars>>
    \/ \E file \in LearnerFiles :
          /\ SaveMarshal(file)
          /\ UNCHANGED <<weightVars, calibVars, patternVars, feedbackVars, matchVars,
                         rowVars, persistCount,
                         ackVars, fanVars, onceVars, probeVars, lockVars>>
    \/ \E i \in DOMAIN savesWriting :
          /\ SaveWrite(i)
          /\ UNCHANGED <<weightVars, calibVars, patternVars, feedbackVars, matchVars,
                         rowVars, persistCount,
                         ackVars, fanVars, onceVars, probeVars, lockVars>>
    \/ \E file \in LearnerFiles \cup {feedbackFileName} :
          /\ Mutation
          /\ CorruptSnapshot(file)
          /\ UNCHANGED <<weightVars, calibVars, patternVars, matchVars, rowVars,
                         savesPending, savesWriting,
                         ackVars, fanVars, onceVars, probeVars, lockVars>>
    \/ /\ Mutation
       /\ Restart

(***************************************************************************)
(* The weights file found at start.  load() takes whatever                 *)
(* adaptive_weights.json holds: a snapshot of this program, one cut down   *)
(* to an empty object, one written with fewer fields.                      *)
(***************************************************************************)
\* CalculateScore(nameSim, dataSim, patternScore, llmScore) under weights w
CalculateScore(w, nameSim, dataSim, patternScore, llmScore) ==
    RoundDiv(nameSim * w.Name + dataSim * w.Data + patternScore * w.Pattern
             + llmScore * w.LLM, One)

MaxLoadOps == 4

\* documents that parse as JSON: {}, {"weights": {}}, a weights object with
\* one field, with four zero fields, the defaults, and {"history": []}
SnapshotDocuments == <<
    EmptyObject,
    [weights |-> EmptyObject],
    [weights |-> [name |-> Pct(DefaultNamePct)]],
    [weights |-> [name |-> 0, data |-> 0, pattern |-> 0, llm |-> 0], history |-> <<>>],
    [weights |-> MarshalWeights(DefaultWeights), history |-> <<>>],
    [history |-> <<>>] >>

\* the file is put in place while the program is down or running
PlaceSnapshot(doc) ==
    /\ disk' = [disk EXCEPT ![adaptiveWeightsFile] = JSON(doc)]
    /\ UNCHANGED savesWriting

LoadStep ==
    /\ persistCount < MaxLoadOps
    /\ persistCount' = persistCount + 1

NextLoad ==
    \/ \E i \in DOMAIN SnapshotDocuments :
          /\ LoadStep
          /\ PlaceSnapshot(SnapshotDocuments[i])
          /\ UNCHANGED <<weightVars, calibVars, patternVars, feedbackVars, matchVars, rowVars,
                         savesPending, ackVars, fanVars, onceVars, probeVars, lockVars>>
    \/ /\ LoadStep
       /\ probe.fn = "none"
       /\ Restart
    \/ /\ LoadStep
       /\ probe.fn = "none"
       /\ UpdateWeights(SteadyBatch)
       /\ UNCHANGED <<calibVars, patternVars, feedbackVars, matchVars, rowVars, saveVars,
                      ackVars, fanVars, onceVars, probeVars, lockVars>>
    \/ /\ probe.fn = "none"
       /\ probe' = [fn |-> "CalculateScore", weights |-> weights,
                    result |-> CalculateScore(weights, One, One, One, One)]
       /\ UNCHANGED <<weightVars, calibVars, patternVars, feedbackVars, matchVars, rowVars,
                      saveVars, savesPending, persistCount, ackVars, fanVars, onceVars,
                      lockVars>>
    \/ ProbeReturn

InitSaves ==
    /\ disk = [file \in LearnerFiles |-> Absent]
    /\ savesPending = [file \in LearnerFiles |-> 0]
    /\ savesWriting = <<>>
    /\ persistCount = 0

InitWeights ==
    /\ weights = DefaultWeights
    /\ trainingHistory = <<>>
    /\ updateCount = 0

Init ==
    /\ InitWeights /\ InitCalib /\ InitPattern /\ InitFeedback /\ InitMatch
    /\ InitRows
    /\ InitSaves
    /\ InitAck
    /\ taskPc = <<>>
    /\ InitOnce
    /\ probe = NoProbe
    /\ InitLocks

NextWeights ==
    \E batch \in Batches :
        /\ updateCount < MaxUpdates
        /\ UpdateWeights(batch)
        /\ UNCHANGED <<calibVars, patternVars, feedbackVars, matchVars, rowVars, saveVars, persistCount,
                       ackVars, fanVars, onceVars, probeVars, lockVars>>

NextWeightsLong ==
    /\ updateCount < MaxLongUpdates
    /\ UpdateWeights(SteadyBatch)
    /\ UNCHANGED <<calibVars, patternVars, feedbackVars, matchVars, rowVars, saveVars, persistCount,
                   ackVars, fanVars, onceVars, probeVars, lockVars>>

\* One client that sends feedback after feedback and lets the learning task
\* of each finish before the next: the task's Update, then its UpdateWeights
\* on a full batch.  The k-th feedback reports a confidence of k mod 101
\* points, so that neighbouring history entries differ.
MaxHistoryFeedback == 502

HistoryConfidence(k) == (k % (MaxConfidencePts + 1)) * Cent

NextHistories ==
    \/ /\ ObservationCount < MaxHistoryFeedback
       /\ updateCount = ObservationCount
       /\ \E actualCorrect \in {ObservationCount % 3 # 0} :
              Update(HistoryConfidence(ObservationCount), actualCorrect)
       /\ UNCHANGED <<weightVars, patternVars, feedbackVars, matchVars, rowVars, saveVars,
                      persistCount, ackVars, fanVars, onceVars, probeVars, lockVars>>
    \/ /\ updateCount < ObservationCount
       /\ UpdateWeights(SteadyBatch)
       /\ UNCHANGED <<calibVars, patternVars, feedbackVars, matchVars, rowVars, saveVars,
                      persistCount, ackVars, fanVars, onceVars, probeVars, lockVars>>

\* Feedback whose confidence field is whatever number the request body held:
\* the handler passes it on unvalidated.  Below 0, on the bucket borders, at
\* and above 100, and beyond the range in which a tenth of it fits an int64.
MaxBucketUpdates == 3

RequestConfidences ==
    {0 - Huge, 0 - (250 * Cent), 0 - (5 * Cent), 0, 999, 10 * Cent, 55 * Cent,
     9999, MaxConfidence, 250 * Cent, Huge}

NextBuckets ==
    \E conf \in RequestConfidences, actualCorrect \in BOOLEAN :
        /\ ObservationCount < MaxBucketUpdates
        /\ Update(conf, actualCorrect)
        /\ UNCHANGED <<weightVars, patternVars, feedbackVars, matchVars, rowVars, saveVars, persistCount,
                       ackVars, fanVars, onceVars, probeVars, lockVars>>

\* Confirmations and rejections of pairs among which one column names the
\* same token twice; enough of them for a rule to leave the neutral band on
\* either side (three confirmations, or one confirmation and six rejections).
MaxNameLearn == 7

NextNames ==
    \E col1 \in NameFile1Columns, col2 \in NameFile2Columns :
        /\ learnCount < MaxNameLearn
        /\ \/ LearnNameFromPositive(col1, col2)
           \/ LearnNameFromNegative(col1, col2)
        /\ UNCHANGED <<weightVars, calibVars, feedbackVars, matchVars, rowVars, saveVars, persistCount,
                       ackVars, fanVars, onceVars, probeVars, lockVars>>

SpecWeights == Init /\ [][NextWeights]_vars
SpecWeightsLong == Init /\ [][NextWeightsLong]_vars
SpecCalib == Init /\ [][NextCalib]_vars
SpecPattern == Init /\ [][NextPattern]_vars
SpecFeedback == Init /\ [][NextFeedback]_vars
SpecPipeline == Init /\ [][NextPipeline]_vars
SpecRows == Init /\ [][NextRows]_vars
SpecPersist == Init /\ [][NextPersist]_vars
SpecAck == Init /\ [][NextAck]_vars
SpecOnce == Init /\ [][NextOnce]_vars
SpecHistories == Init /\ [][NextHistories]_vars
SpecBuckets == Init /\ [][NextBuckets]_vars
SpecNames == Init /\ [][NextNames]_vars
SpecCorrections == Init /\ [][NextCorrections]_vars
SpecLevenshtein == Init /\ [][NextLevenshtein]_vars
SpecExtract == Init /\ [][NextExtract]_vars
SpecProfile == Init /\ [][NextProfile]_vars
SpecDetect == Init /\ [][NextDetect]_vars
SpecFormat == Init /\ [][NextFormat]_vars
SpecLoad == Init /\ [][NextLoad]_vars
SpecLocked == Init /\ [][NextLocked]_vars
SpecFanout == Init /\ [][NextFanout]_vars
\* The Go scheduler does not stop running the goroutines that can run, and a
\* task never waits for more than a mutex that its holder releases: a task
\* that has not finished takes its next step.  Among the steps of NextFanout
\* the steps of TaskAdvances are exactly the steps TaskStep(i).
AfterPc(pc) ==
    IF pc = "calibrate" THEN "pattern" ELSE IF pc = "pattern" THEN "weights" ELSE "done"

TaskAdvances == \E i \in DOMAIN tasks : Pc(i) # "done" /\ SetPc(i, AfterPc(Pc(i)))

SpecFanoutFair == SpecFanout /\ WF_taskPc(TaskAdvances)

WeightSum == weights.Name + weights.Data + weights.Pattern + weights.LLM

\* C1: after any sequence of UpdateWeights calls the four weights sum to 1.0
\* (up to the rounding of the four quotients) and each is at least 0.05.
C1_SumOneAndFloor ==
    /\ WeightSum >= One - 2 /\ WeightSum <= One + 2
    /\ weights.Name >= MinWeight /\ weights.Data >= MinWeight
    /\ weights.Pattern >= MinWeight /\ weights.LLM >= MinWeight

\* the batches of C2 that the default weights answer with a lower Name weight
NameLoweredByConfirmation(b) ==
    /\ weights = UpdatedWeights(DefaultWeights, b)
    /\ weights.Name < DefaultWeights.Name
    /\ FloorWeights(GradientStep(DefaultWeights, b)).Name > DefaultWeights.Name

\* C2 (as claimed): an UpdateWeights call with ten all-correct entries, scores
\* in [0,1], never leaves weights.Name lower than it was before the call.
C2_NameNeverDecreases ==
    [][\A b \in ConfirmingBatches : UpdateWeights(b) => weights'.Name >= weights.Name]_vars

\* C2 (amended): for ten all-correct entries with scores in [0,1] the Name weight
\* as it stands after the gradient step and the 0.05 floor, before the
\* renormalisation, is not lower than before the call.
C2_NameStepNotDecreasing ==
    \A b \in ConfirmingBatches : FloorWeights(GradientStep(weights, b)).Name >= weights.Name

\* witness of C2: a confirming batch was applied to the defaults; the stepped
\* Name weight rose, the renormalised one fell.
C2_Witness == updateCount = 1 /\ \E b \in ConfirmingBatches : NameLoweredByConfirmation(b)

\* the bucket that owns confidence x, as the claims name it: min(9, floor(x / 10))
OwningBucket(x) == Min(NumBuckets - 1, x \div (BucketWidth * Cent))

\* C3: Calibrate(x) = x for every x in [0,100] whose owning bucket has fewer
\* than 5 observations.
C3_IdentityBelowMinSamples ==
    \A x \in CalibrateSamples :
        buckets[OwningBucket(x)].TotalCount < 5 => Calibrate(x) = x

\* witness of C3: a bucket has 1..4 observations and a stored factor other than
\* 1.0, while another bucket already calibrates.
C3_Witness ==
    /\ \E i \in DOMAIN buckets :
          /\ buckets[i].TotalCount \in 1..4
          /\ buckets[i].CalibrationFactor # One
    /\ \E x \in CalibrateSamples : Calibrate(x) # x

\* C4 (as claimed): every bucket with fewer than 5 observations has
\* calibrationFactor 1.0.
C4_FactorIdentityBelowMinSamples ==
    \A i \in DOMAIN buckets :
        buckets[i].TotalCount < 5 => buckets[i].CalibrationFactor = One

\* C4 (amended): a bucket without observations has calibrationFactor 1.0; from
\* its first observation on the stored factor is actualAccuracy divided by the
\* bucket midpoint, also below 5 observations.
C4_FactorTracksAccuracy ==
    \A i \in DOMAIN buckets :
        LET b == buckets[i]
        IN  IF b.TotalCount = 0
            THEN b.CalibrationFactor = One
            ELSE b.CalibrationFactor
                    = RoundDiv(RoundDiv(b.CorrectCount * One, b.TotalCount) * One,
                               Pct(i * BucketWidth + 5))

\* witness of C4: a bucket with 1..4 observations whose stored factor is not 1.0
C4_Witness ==
    \E i \in DOMAIN buckets :
        buckets[i].TotalCount \in 1..4 /\ buckets[i].CalibrationFactor # One

\* every stored confidence of the rule list rs is strictly between 0 and 1
ConfidencesInOpenUnit(rs) ==
    \A i \in DOMAIN rs :
        /\ FracLess(<<0, 1>>, rs[i].Confidence)
        /\ FracLess(rs[i].Confidence, <<1, 1>>)

\* C5: every stored pattern confidence stays strictly between 0 and 1, each
\* LearnFromPositive that hits a rule strictly increases its stored confidence
\* and each LearnFromNegative that hits it strictly decreases it.
C5_ConfidenceMonotone ==
    [][/\ ConfidencesInOpenUnit(patterns')
       /\ \A col1 \in File1Columns, col2 \in File2Columns :
             LET i == RuleIndex(patterns, extractPattern(col1), extractPattern(col2))
             IN  i # 0 =>
                    /\ LearnFromPositive(col1, col2) =>
                           FracLess(patterns[i].Confidence, patterns'[i].Confidence)
                    /\ LearnFromNegative(col1, col2) =>
                           FracLess(patterns'[i].Confidence, patterns[i].Confidence)]_vars

\* C6: from an empty store, once AddFeedback(a, b, isCorrect = false, a
\* non-empty correctMatch) has returned, GetLearnedBoost(a, b) is exactly -0.3.
C6_RejectedPairBoost ==
    (/\ Len(matches) = 1
     /\ ~matches[1].IsCorrect
     /\ matches[1].CorrectMatch # <<>>)
        => GetLearnedBoost(matches[1].File1Column, matches[1].File2Column) = -Pct(30)

\* witness of C6: the one entry of the log is such a rejection and its pair has
\* an entry in the Corrections table
C6_Witness ==
    /\ Len(matches) = 1
    /\ ~matches[1].IsCorrect
    /\ matches[1].CorrectMatch # <<>>
    /\ CorrectionKey(matches[1].File1Column, matches[1].File2Column) \in DOMAIN corrections

\* the value the priority order of C7 names for (col1, col2)
BoostByPriority(col1, col2) ==
    LET hits == {i \in DOMAIN matches :
                    matches[i].File1Column = col1 /\ matches[i].File2Column = col2}
    IN  IF hits # {}
        THEN (IF matches[CHOOSE i \in hits : \A j \in hits : i <= j].IsCorrect
              THEN Pct(20) ELSE -Pct(30))
        ELSE IF \E k \in DOMAIN corrections : k = col1 \o <<"|">> \o col2 THEN -Pct(25)
        ELSE IF \E k \in DOMAIN corrections : corrections[k].Suggested = col2 THEN -Pct(15)
        ELSE 0

\* C7: GetLearnedBoost returns the value of the first applicable rule: the
\* (earliest) log entry for exactly the pair gives +0.2 or -0.3, else the
\* Corrections entry under the pair's key gives -0.25, else a Corrections entry
\* suggesting col2 gives -0.15, else 0.0; no other value is returned.
C7_BoostPriority ==
    \A col1 \in QueryFile1Columns, col2 \in QueryFile2Columns :
        /\ GetLearnedBoost(col1, col2) = BoostByPriority(col1, col2)
        /\ GetLearnedBoost(col1, col2) \in {Pct(20), -Pct(30), -Pct(25), -Pct(15), 0}

\* witness of C7: the log and the table are such that four different rules
\* decide four different pairs
C7_Witness ==
    /\ \E c1 \in QueryFile1Columns, c2 \in QueryFile2Columns :
          GetLearnedBoost(c1, c2) = Pct(20)
    /\ \E c1 \in QueryFile1Columns, c2 \in QueryFile2Columns :
          GetLearnedBoost(c1, c2) = -Pct(30)
    /\ \E c1 \in QueryFile1Columns, c2 \in QueryFile2Columns :
          GetLearnedBoost(c1, c2) = -Pct(25)
    /\ \E c1 \in QueryFile1Columns, c2 \in QueryFile2Columns :
          GetLearnedBoost(c1, c2) = -Pct(15)

(***************************************************************************)
(* Matching pipeline                                                       *)
(***************************************************************************)
\* the pairs of column indices of the loaded datasets
ColumnPairs == (DOMAIN request.Headers1) \X (DOMAIN request.Headers2)

\* what compareColumns returns for pair p in the current learner state
Compared(p) ==
    compareColumns(request.Headers1[p[1]], request.Headers2[p[2]],
                   request.Signals[p], request.Ctx1, request.Ctx2)

\* the first dataset's context declares pair p as a custom mapping
CustomMapped(p) ==
    /\ request.Ctx1.present
    /\ request.Headers1[p[1]] \in DOMAIN request.Ctx1.CustomMappings
    /\ request.Ctx1.CustomMappings[request.Headers1[p[1]]] = request.Headers2[p[2]]

\* C8: a pair the first dataset's context declares as a custom mapping gets
\* confidence exactly 95 from the pipeline, in every state of the learners.
C8_CustomMappingIs95 ==
    \A p \in ColumnPairs : CustomMapped(p) => Compared(p).Confidence = CustomMappingPts * Cent

\* the confidence of pair p before the final clamp
Unclamped(p) ==
    Calibrate(RawConfidence(request.Headers1[p[1]], request.Headers2[p[2]],
                            request.Signals[p], request.Ctx1, request.Ctx2))

\* the positions of the returned list that hold pair p
PositionsOf(rs, p) ==
    {k \in DOMAIN rs : /\ rs[k].File1Column = request.Headers1[p[1]]
                       /\ rs[k].File2Column = request.Headers2[p[2]]}

\* C9: in every learner state the list CalculateEnhancedSimilarity returns for
\* the loaded datasets holds exactly the pairs of the cross product whose final
\* confidence is above 10, each once and with the result compareColumns
\* computed for it, ordered by non-increasing confidence.
C9_FilteredAndSorted ==
    LET returned == EnhancedSimilarity(request)
    IN  /\ \A p \in ColumnPairs :
              LET r == Compared(p)
                  at == PositionsOf(returned, p)
              IN  IF r.Confidence # NaN /\ r.Confidence > MinResultPts * Cent
                  THEN \E k \in DOMAIN returned : at = {k} /\ returned[k] = r
                  ELSE at = {}
        /\ \A k \in DOMAIN returned : \E p \in ColumnPairs : k \in PositionsOf(returned, p)
        /\ \A k \in 1..(Len(returned) - 1) :
              returned[k].Confidence >= returned[k + 1].Confidence

\* a call returned three of four pairs, in strictly falling confidence
C9_Witness ==
    /\ Len(results) = 3
    /\ \E p \in ColumnPairs : Compared(p).Confidence <= MinResultPts * Cent
    /\ results[1].Confidence > results[2].Confidence
    /\ results[2].Confidence > results[3].Confidence

\* c lies within 0..100
InRange(c) == c # NaN /\ c >= 0 /\ c <= MaxConfidence

\* C10: for every pair of columns and every learner state compareColumns
\* returns a confidence within 0..100 and Similarity = Confidence / 100.
C10_ConfidenceRange ==
    \A p \in ColumnPairs :
        LET r == Compared(p)
        IN  /\ InRange(r.Confidence)
            /\ r.Similarity # NaN
            /\ r.Similarity * MaxConfidencePts * Cent = r.Confidence * One

\* the part of C10 that holds: when no signal of the pair is NaN, the confidence
\* lies within 0..100 and Similarity = Confidence / 100, the clamp acting on
\* values the calibrator left below 0 or above 100.
C10_FiniteConfidenceRange ==
    \A p \in ColumnPairs :
        request.Signals[p].dataSimilarity # NaN =>
            LET r == Compared(p)
            IN  /\ InRange(r.Confidence)
                /\ r.Similarity * MaxConfidencePts * Cent = r.Confidence * One

\* a call returned results while the clamp acts: one pair is above 100 before
\* it, in a bucket with fewer than 5 observations
C10_ClampActs ==
    /\ results # <<>>
    /\ \E p \in ColumnPairs :
          /\ Unclamped(p) # NaN /\ Unclamped(p) > MaxConfidence
          /\ buckets[NumBuckets - 1].TotalCount < MinSamples

(***************************************************************************)
(* C11.  CalculateEnhancedSimilarity returns a result list for every pair  *)
(* of data frames, whatever their numbers of rows and the widths of their  *)
(* rows (no row access out of range), and compares no pair of columns when *)
(* a frame has no columns.                                                 *)
(***************************************************************************)
C11_AlwaysReturns ==
    /\ outcome.status # "panic"
    /\ (outcome.status = "returned" /\ (df1.Headers = 0 \/ df2.Headers = 0))
           => outcome.compared = 0

\* What the code guarantees: the call returns whenever the second frame
\* has at least as many rows as the first.
C11_ReturnsWhenSecondNotShorter ==
    (outcome.status # "idle" /\ Len(df2.Rows) >= Len(df1.Rows))
        => outcome.status = "returned"

(***************************************************************************)
(* Persistence                                                             *)
(***************************************************************************)
\* the state a learner keeps in memory, and what a fresh instance holds after
\* loading a given file content
Memory(file) ==
    IF file = adaptiveWeightsFile
    THEN [weights |-> weights, trainingHistory |-> trainingHistory]
    ELSE IF file = confidenceCalibrationFile
    THEN [buckets |-> buckets, history |-> history]
    ELSE IF file = patternLearningFile
    THEN [patterns |-> patterns, tokenMappings |-> tokenMappings]
    ELSE [matches |-> matches, corrections |-> corrections]

Saved(file) ==
    IF file = feedbackFileName THEN MarshalFeedback(matches, corrections)
    ELSE Marshalled(file)

Loaded(file, content) ==
    IF file = adaptiveWeightsFile THEN loadAdaptive(content)
    ELSE IF file = confidenceCalibrationFile THEN loadCalibration(content)
    ELSE IF file = patternLearningFile THEN loadPatterns(content)
    ELSE loadFeedback(content)

OnDisk(file) == IF file = feedbackFileName THEN feedbackFile ELSE disk[file]

AllFiles == LearnerFiles \cup {feedbackFileName}

(***************************************************************************)
(* C12.  For each of the four persisted learners, saving a state the       *)
(* learner's operations reach and loading the result into a fresh instance *)
(* gives back the same in-memory state.                                    *)
(***************************************************************************)
C12_RoundTrip == \A file \in AllFiles : Loaded(file, Saved(file)) = Memory(file)

\* What the code guarantees: the round trip of every state save() can marshal.
C12_RoundTripWhenMarshalled ==
    \A file \in AllFiles :
        Saved(file).kind = "json" => Loaded(file, Saved(file)) = Memory(file)

(***************************************************************************)
(* C13.  For each learner, when no detached save of its file is pending or *)
(* writing (and its state can be marshalled and nothing damaged the file), *)
(* the snapshot on disk is the state in memory.                            *)
(***************************************************************************)
Quiet(file) ==
    /\ savesPending[file] = 0
    /\ \A i \in DOMAIN savesWriting : savesWriting[i].file # file

C13_DiskCurrentWhenQuiet ==
    \A file \in LearnerFiles :
        (Quiet(file) /\ Saved(file).kind = "json" /\ disk[file].kind # "corrupt")
            => Loaded(file, disk[file]) = Memory(file)

(***************************************************************************)
(* C18.  A start of the process that finds a snapshot it cannot parse      *)
(* completes, and leaves the learner of that file with its built-in        *)
(* defaults: weights 0.35/0.30/0.20/0.15 and no history, the 10 seeded     *)
(* buckets and no history, no rules and no token mappings, an empty log    *)
(* and no corrections.                                                     *)
(***************************************************************************)
Defaults(file) ==
    IF file = adaptiveWeightsFile
    THEN [weights |-> [Name |-> Pct(35), Data |-> Pct(30), Pattern |-> Pct(20),
                       LLM |-> Pct(15)],
          trainingHistory |-> <<>>]
    ELSE IF file = confidenceCalibrationFile
    THEN [buckets |-> [i \in 0..9 |->
                          [RangeMin |-> 10 * i, RangeMax |-> 10 * i + 10, TotalCount |-> 0,
                           CorrectCount |-> 0, ActualAccuracy |-> Pct(10 * i + 5),
                           CalibrationFactor |-> One]],
          history |-> <<>>]
    ELSE IF file = patternLearningFile
    THEN [patterns |-> <<>>, tokenMappings |-> <<>>]
    ELSE [matches |-> <<>>, corrections |-> <<>>]

C18_CorruptSnapshotStartsWithDefaults ==
    [][Restart =>
          \A file \in AllFiles :
              OnDisk(file).kind = "corrupt" => Memory(file)' = Defaults(file)]_vars

\* the learner had learned, its snapshot was damaged, and the process started
\* again: the file is still unreadable and the learner is back to its defaults
C18_Witness ==
    /\ disk[adaptiveWeightsFile].kind = "corrupt"
    /\ weights = DefaultWeights
    /\ trainingHistory = <<>>
    /\ persistCount = MaxPersistOps

(***************************************************************************)
(* C14.  When AddFeedback returns and no disk write has failed, the        *)
(* snapshot on disk holds the submitted entry (at its place in the log),   *)
(* also when several calls run at the same time.                           *)
(***************************************************************************)
Returns(c) == calls[c].pc = "saved" /\ calls'[c].pc = "returned"

HoldsEntry(content, pos, entry) ==
    /\ content.kind = "json"
    /\ Len(loadFeedback(content).matches) >= pos
    /\ loadFeedback(content).matches[pos] = entry

C14_DurableAck ==
    [][\A c \in Callers :
          (Returns(c) /\ \A d \in Callers : ~calls[d].everFailed)
              => HoldsEntry(feedbackFile', calls[c].pos, calls[c].entry)]_vars

(***************************************************************************)
(* C19.  When the disk write of AddFeedback fails, the call still returns  *)
(* the recorded entry and no error, the entry stays in the in-memory log   *)
(* (and its correction in the table), and the learning task is started.    *)
(***************************************************************************)
C19_FailedWriteIsNotFatal ==
    [][\A c \in Callers :
          (Returns(c) /\ calls[c].failed)
              => /\ calls'[c].result = [entry |-> calls[c].entry, err |-> "nil"]
                 /\ matches'[calls[c].pos] = calls[c].entry
                 /\ (~calls[c].entry.IsCorrect /\ calls[c].entry.CorrectMatch # <<>>)
                        => CorrectionKey(calls[c].entry.File1Column,
                                         calls[c].entry.File2Column) \in DOMAIN corrections'
                 /\ tasks' = Append(tasks, [feedback |-> calls[c].entry,
                                            recentBatch |-> calls[c].batch])]_vars

C19_Witness ==
    \E c \in Callers :
        /\ calls[c].pc = "returned"
        /\ calls[c].failed
        /\ ~HoldsEntry(feedbackFile, calls[c].pos, calls[c].entry)
        /\ \E i \in DOMAIN tasks : tasks[i].feedback = calls[c].entry

(***************************************************************************)
(* Learning fan-out                                                        *)
(***************************************************************************)
CountWhere(seq, Test(_)) == Cardinality({i \in DOMAIN seq : Test(seq[i])})

Confirmed(e) == e.IsCorrect
ObservedCorrect(h) == h.ActualCorrect
OfConfidence95(h) == h.PredictedConf = 95 * Cent

SuccessTotal ==
    LET RECURSIVE Sum(_)
        Sum(i) == IF i = 0 THEN 0 ELSE patterns[i].SuccessCount + Sum(i - 1)
    IN  Sum(Len(patterns))

(***************************************************************************)
(* C15.  Under fair scheduling of the background tasks every submitted     *)
(* entry's task finishes, and it has then made exactly one calibrator      *)
(* Update with the entry's confidence and isCorrect flag and exactly one   *)
(* pattern-learner call, LearnFromPositive for a confirmed entry and       *)
(* LearnFromNegative for a rejected one: once all tasks have finished, the *)
(* totalCount of the 10 buckets sums to the number of entries submitted.   *)
(***************************************************************************)
FanOutDone ==
    AllTasksDone =>
        /\ ObservationCount = Len(matches)
        /\ Len(history) = Len(matches)
        /\ CountWhere(history, ObservedCorrect) = CountWhere(matches, Confirmed)
        /\ CountWhere(history, OfConfidence95) = Len(matches)
        /\ learnCount = Len(matches)
        /\ SuccessTotal = CountWhere(matches, Confirmed)

C15_FanOutRunsOncePerEntry ==
    /\ []FanOutDone
    /\ (PendingTasks # {}) ~> AllTasksDone

C15_Witness ==
    /\ Len(matches) = MaxFanoutFeedback
    /\ AllTasksDone
    /\ Rejected # {}
    /\ ObservationCount = MaxFanoutFeedback

(***************************************************************************)
(* C16.  The task of entry i calls UpdateWeights only if the log held at   *)
(* least 10 entries once entry i was appended, and the batch it passes is  *)
(* the 10 entries of the log that end with entry i, whatever was appended  *)
(* to the log before the task ran.                                         *)
(***************************************************************************)
C16_BatchIsWindowAtAppend ==
    [][\A i \in DOMAIN tasks :
          (Pc(i) = "weights" /\ taskPc'[i] = "done")
              => IF i >= BatchLen
                 THEN /\ weights' = UpdatedWeights(weights, SubSeq(matches, i - BatchLen + 1, i))
                      /\ matches[i] = tasks[i].feedback
                      /\ updateCount' = updateCount + 1
                 ELSE UNCHANGED <<weights, trainingHistory, updateCount>>]_vars

\* the task of entry 10 runs its weight update after entry 11 was appended
C16_Witness ==
    /\ Len(matches) > BatchLen
    /\ Pc(BatchLen) = "done"
    /\ Pc(BatchLen + 1) = "calibrate"
    /\ Len(trainingHistory) = 1
    /\ Rejected = {1}

(***************************************************************************)
(* C17.  After N AddFeedback calls on an empty store, once their tasks     *)
(* have finished, UpdateWeights has run once per 10 entries accumulated    *)
(* (N \div 10 times) and has added that many training-history entries.     *)
(***************************************************************************)
C17_OneUpdatePerTenEntries ==
    AllTasksDone =>
        /\ updateCount = Len(matches) \div BatchLen
        /\ Len(trainingHistory) = Len(matches) \div BatchLen

\* What the code does: one update per entry from the tenth entry on.
C17_OneUpdatePerEntryFromTenth ==
    AllTasksDone => updateCount = Max(0, Len(matches) - BatchLen + 1)

(***************************************************************************)
(* C20.  For each accessor, however many first calls run at the same time, *)
(* one instance is constructed, its load runs once and has completed       *)
(* before any caller receives the instance, and every caller receives that *)
(* one instance.                                                           *)
(***************************************************************************)
C20_OneInstanceLoadedOnce ==
    \A a \in Accessors :
        /\ built[a] <= 1
        /\ loadsRun[a] <= 1
        /\ \A t \in Threads :
               threads[t].got[a] # 0
                   => /\ threads[t].got[a] = 1
                      /\ loadsRun[a] = 1
                      /\ onceState[a] = "done"

\* every thread has every instance, and one of them had to wait for the
\* construction another thread was running
C20_Witness ==
    /\ \A t \in Threads, a \in Accessors : threads[t].got[a] = 1
    /\ \E t \in Threads : "GetAdaptiveLearner" \in threads[t].waited

(***************************************************************************)
(* C21.  The training history never holds more than 100 entries and the    *)
(* calibration history never more than 500.  An update appends its entry   *)
(* at the end and keeps, in their order, the most recent of the entries    *)
(* that were there: when the cap is exceeded the oldest entry is the one   *)
(* that goes.                                                              *)
(***************************************************************************)
\* h2 is h with one entry appended and, beyond the cap, the oldest dropped
KeepsMostRecent(h, h2, cap) ==
    /\ Len(h2) = Min(Len(h) + 1, cap)
    /\ \A i \in 1..(Len(h2) - 1) : h2[i] = h[i + (Len(h) + 1 - Len(h2))]

C21_HistoriesCapped ==
    /\ [](Len(trainingHistory) <= MaxTrainingHistory /\ Len(history) <= MaxCalibrationHistory)
    /\ [][/\ updateCount' # updateCount
              => /\ KeepsMostRecent(trainingHistory, trainingHistory', MaxTrainingHistory)
                 /\ trainingHistory'[Len(trainingHistory')].Weights = weights'
          /\ buckets' # buckets
              => /\ KeepsMostRecent(history, history', MaxCalibrationHistory)
                 /\ history'[Len(history')].PredictedConf
                        = HistoryConfidence(ObservationCount)]_vars

\* both histories are full and each has already dropped an entry
C21_Witness ==
    /\ Len(trainingHistory) = MaxTrainingHistory /\ updateCount > MaxTrainingHistory
    /\ Len(history) = MaxCalibrationHistory /\ ObservationCount > MaxCalibrationHistory

(***************************************************************************)
(* C22.  From an empty store, a Correction exists for (col1, col2) exactly *)
(* when some feedback for (col1, col2) was negative and carried a correct  *)
(* match, and its count is the number of such feedback entries.            *)
(***************************************************************************)
\* the entries of the log that were negative and named a correct match
Corrected(Pair(_)) ==
    {i \in DOMAIN matches :
        /\ Pair(matches[i])
        /\ ~matches[i].IsCorrect
        /\ matches[i].CorrectMatch # <<>>}

C22_CorrectionIffCorrected ==
    \A col1 \in CorrectionFile1Columns, col2 \in CorrectionFile2Columns :
        LET SamePair(e) == e.File1Column = col1 /\ e.File2Column = col2
            n == Cardinality(Corrected(SamePair))
            key == CorrectionKey(col1, col2)
        IN  /\ key \in DOMAIN corrections <=> n > 0
            /\ n > 0 => corrections[key].Count = n

\* What the code keeps: one Correction per key string col1 + "|" + col2,
\* counting the corrected entries of every pair that spells that string.
C22_CorrectionPerKeyString ==
    \A col1 \in CorrectionFile1Columns, col2 \in CorrectionFile2Columns :
        LET key == CorrectionKey(col1, col2)
            SameKey(e) == CorrectionKey(e.File1Column, e.File2Column) = key
            n == Cardinality(Corrected(SameKey))
        IN  /\ key \in DOMAIN corrections <=> n > 0
            /\ n > 0 => corrections[key].Count = n

(***************************************************************************)
(* C23.  LevenshteinRatio(a, b) = LevenshteinRatio(b, a), the value lies   *)
(* in [0, 1], and LevenshteinRatio(a, a) = 1.                              *)
(***************************************************************************)
C23_LevenshteinSymmetric ==
    probe.fn = "LevenshteinRatio"
        => /\ probe.result = LevenshteinRatio(probe.s2, probe.s1)
           /\ probe.result >= 0 /\ probe.result <= One
           /\ probe.s1 = probe.s2 => probe.result = One

\* two different names of different lengths, one with a two-byte letter and a
\* capital, that are neither equal nor wholly different
C23_Witness ==
    /\ probe.fn = "LevenshteinRatio"
    /\ Len(probe.s1) < Len(probe.s2)
    /\ ByteLen(probe.s1) > Len(probe.s1)
    /\ \E i \in DOMAIN probe.s2 : probe.s2[i] = "A"
    /\ probe.result > 0 /\ probe.result < One

(***************************************************************************)
(* C24.  extractPattern depends on the lower-cased name alone.  It gives   *)
(* the pattern of the first suffix of the list the name ends with, failing *)
(* that the pattern of the first prefix of the list it starts with,        *)
(* failing that "": "user_id" gives "*_id", "is_active" gives "is_*",      *)
(* "description" gives "", "is_valid_id" gives "*_id".                     *)
(***************************************************************************)
ColDescription == <<"d", "e", "s", "c", "r", "i", "p", "t", "i", "o", "n">>
ColIsValidId == <<"i", "s", "_", "v", "a", "l", "i", "d", "_", "i", "d">>

C24_ExtractPattern ==
    probe.fn = "extractPattern"
        => LET c == ToLower(probe.col)
               r == probe.result
               EndsWith(i) == HasSuffix(c, SuffixPatterns[i].suffix)
               StartsWith(i) == HasPrefix(c, PrefixPatterns[i].prefix)
               NoSuffix == \A i \in DOMAIN SuffixPatterns : ~EndsWith(i)
               NoPrefix == \A i \in DOMAIN PrefixPatterns : ~StartsWith(i)
           IN  /\ r = extractPattern(c)
               /\ \A i \in DOMAIN SuffixPatterns :
                      EndsWith(i) /\ (\A j \in 1..(i - 1) : ~EndsWith(j))
                          => r = SuffixPatterns[i].pattern
               /\ \A i \in DOMAIN PrefixPatterns :
                      NoSuffix /\ StartsWith(i) /\ (\A j \in 1..(i - 1) : ~StartsWith(j))
                          => r = PrefixPatterns[i].pattern
               /\ NoSuffix /\ NoPrefix => r = ""
               /\ probe.col = ColUserId => r = "*_id"
               /\ probe.col = ColIsActive => r = "is_*"
               /\ probe.col = ColDescription => r = ""
               /\ probe.col = ColIsValidId => r = "*_id"

\* the name that has both a listed prefix and a listed suffix
C24_Witness ==
    /\ probe.fn = "extractPattern"
    /\ probe.col = ColIsValidId
    /\ probe.result = "*_id"

(***************************************************************************)
(* C25.  ProfileColumn sets isPrimaryKey exactly when uniquenessRatio is   *)
(* above 0.95 and nullRate below 0.05, a cell counting as null when it is  *)
(* "", "null", "NULL" or "None" or when its row is too short.  A column of *)
(* n >= 1 rows with n different non-null values has uniquenessRatio 1.0,   *)
(* nullRate 0.0 and is a primary key; a column without rows is none.       *)
(***************************************************************************)
NullSpellings ==
    {<<>>, <<"n", "u", "l", "l">>, <<"N", "U", "L", "L">>, <<"N", "o", "n", "e">>}

\* the rows of the profiled column that hold a value
ValueRows(rows, colIdx) ==
    {i \in DOMAIN rows : colIdx < Len(rows[i]) /\ rows[i][colIdx + 1] \notin NullSpellings}

C25_PrimaryKey ==
    probe.fn = "ProfileColumn"
        => LET rows == probe.rows
               p == probe.result
               valued == ValueRows(rows, probe.colIdx)
               n == Len(rows)
               nonNull == Cardinality(valued)
               distinct == Cardinality({rows[i][probe.colIdx + 1] : i \in valued})
           IN  /\ p.NonNullRows = nonNull
               /\ p.DistinctCount = distinct
               /\ p.IsPrimaryKey <=> /\ p.UniquenessRatio > Pct(PrimaryKeyUniquenessPct)
                                     /\ p.NullRate < Pct(PrimaryKeyNullPct)
               /\ p.IsPrimaryKey <=> /\ nonNull > 0
                                     /\ distinct * 100 > PrimaryKeyUniquenessPct * nonNull
                                     /\ (n - nonNull) * 100 < PrimaryKeyNullPct * n
               /\ n >= 1 /\ nonNull = n /\ distinct = n
                      => p.UniquenessRatio = One /\ p.NullRate = 0 /\ p.IsPrimaryKey
               /\ n = 0 => ~p.IsPrimaryKey

\* a primary key in spite of one null row and one repeated value
C25_Witness ==
    /\ probe.fn = "ProfileColumn"
    /\ probe.result.IsPrimaryKey
    /\ probe.result.NonNullRows < probe.result.TotalRows
    /\ probe.result.DistinctCount < probe.result.NonNullRows

(***************************************************************************)
(* C26.  A snapshot of a learner is marshalled only while no mutation of   *)
(* that learner is in progress, so what is written always is a state the   *)
(* learner held between two mutations, never one with the first field of   *)
(* a mutation changed and the second not yet.                              *)
(***************************************************************************)
Mutating(file) == inProgress[file].kind \notin {"none", "save"}

RECURSIVE TotalCounts(_, _)
TotalCounts(bs, i) == IF i > Len(bs) THEN 0 ELSE bs[i].total_count + TotalCounts(bs, i + 1)

\* The two fields of the snapshot belong together.  Between the mutations of
\* NextLocked: the weights are those of the last history entry; the buckets
\* count the history entries; the rule has been confirmed as often as each
\* token pair was seen; the correction counts the log entries.
Untorn(file, content) ==
    content.kind = "json" =>
        LET doc == content.doc
        IN  IF file = adaptiveWeightsFile
            THEN doc.weights = IF doc.history = <<>> THEN MarshalWeights(DefaultWeights)
                               ELSE doc.history[Len(doc.history)].weights
            ELSE IF file = confidenceCalibrationFile
            THEN TotalCounts(doc.buckets, 1) = Len(doc.history)
            ELSE IF file = patternLearningFile
            THEN /\ doc.patterns = <<>> <=> DOMAIN doc.token_mappings = {}
                 /\ \A k \in DOMAIN doc.token_mappings :
                        doc.token_mappings[k].occurrences = doc.patterns[1].success_count
            ELSE Len(doc.matches) =
                     IF DOMAIN doc.corrections = {} THEN 0
                     ELSE doc.corrections[CorrectionKey(ColUserId, ColCustId)].count

RECURSIVE RulesInOrder(_, _, _)
RulesInOrder(ms, i, rules) ==
    IF i > Len(ms) THEN rules
    ELSE RulesInOrder(ms, i + 1,
             IF ms[i].IsCorrect
             THEN PositiveRules(rules, ColumnPattern[ms[i].File1Column],
                                ColumnPattern[ms[i].File2Column])
             ELSE NegativeRules(rules, ColumnPattern[ms[i].File1Column],
                                ColumnPattern[ms[i].File2Column]))

C27_ScheduleIndependent ==
    AllTasksDone =>
        /\ Len(history) = Len(matches)
        /\ \A i \in DOMAIN history :
               /\ history[i].PredictedConf = matches[i].Confidence
               /\ history[i].ActualCorrect = matches[i].IsCorrect
        /\ patterns = RulesInOrder(matches, 1, <<>>)

\* What the code keeps: every entry is applied once, in some order.
C27_EveryEntryAppliedOnce ==
    AllTasksDone =>
        /\ Len(history) = Len(matches)
        /\ CountWhere(history, ObservedCorrect) = CountWhere(matches, Confirmed)
        /\ learnCount = Len(matches)

\* floor(p / 10) clamped into 0..9
ClampedFloor(p) ==
    Max(0, Min(NumBuckets - 1, p \div (BucketWidth * Cent)))

\* the step is an Update: the calibration history grew by one entry
IsUpdate == Len(history') = Len(history) + 1

\* C28: Update(p, c) changes exactly one bucket, the one with index floor(p/10)
\* clamped into 0..9 (bucket 0 for every p below 0, bucket 9 for every p of 100
\* or more), and leaves the other nine unchanged; in every reachable state each
\* bucket has correctCount <= totalCount.
C28_UpdateClampedBucket ==
    /\ [][IsUpdate =>
             LET idx == ClampedFloor(history'[Len(history')].PredictedConf)
             IN  /\ buckets'[idx] # buckets[idx]
                 /\ \A j \in DOMAIN buckets : j # idx => buckets'[j] = buckets[j]]_vars
    /\ [](\A i \in DOMAIN buckets : buckets[i].CorrectCount <= buckets[i].TotalCount)

\* what holds of every Update: exactly one bucket changes, for a confidence
\* whose tenth fits an int64 it is the clamped floor, and no bucket counts more
\* correct predictions than predictions.
C28_UpdateOneBucket ==
    /\ [][IsUpdate =>
             LET p == history'[Len(history')].PredictedConf
             IN  /\ \E idx \in DOMAIN buckets :
                        /\ buckets'[idx] # buckets[idx]
                        /\ p # Huge => idx = ClampedFloor(p)
                        /\ \A j \in DOMAIN buckets : j # idx => buckets'[j] = buckets[j]]_vars
    /\ [](\A i \in DOMAIN buckets : buckets[i].CorrectCount <= buckets[i].TotalCount)

\* the elements of a sequence
Elements(s) == {s[i] : i \in DOMAIN s}

\* the keys LearnFromNegative(col1, col2) looks up
NegativeKeys(col1, col2) ==
    {TokenKey(t1, t2) : t1 \in Elements(NameTokens[col1]),
                        t2 \in Elements(NameTokens[col2])}

\* a score multiplied by 0.8, not below 0.1
DecayedOnce(score) == Max(Pct(MinTokenScorePct), RoundDiv(score * TokenDecayPct, 100))

\* ... n times over
RECURSIVE DecayedTimes(_, _)
DecayedTimes(score, n) == IF n = 0 THEN score ELSE DecayedTimes(DecayedOnce(score), n - 1)

\* how often the nested loops of LearnFromNegative(col1, col2) come to key
Visits(col1, col2, key) ==
    LET pairs == TokenPairs(NameTokens[col1], NameTokens[col2])
    IN  Cardinality({k \in DOMAIN pairs : TokenKey(pairs[k][1], pairs[k][2]) = key})

\* LearnFromNegative(col1, col2) creates no rule and changes at most the rule of
\* the derived pattern pair, by failCount + 1
NegativeRuleFrame(col1, col2) ==
    LET i == RuleIndex(patterns, NamePattern[col1], NamePattern[col2])
    IN  /\ Len(patterns') = Len(patterns)
        /\ \A j \in DOMAIN patterns :
               IF j = i
               THEN /\ patterns'[j].FailCount = patterns[j].FailCount + 1
                    /\ patterns'[j].SuccessCount = patterns[j].SuccessCount
                    /\ patterns'[j].Pattern1 = patterns[j].Pattern1
                    /\ patterns'[j].Pattern2 = patterns[j].Pattern2
               ELSE patterns'[j] = patterns[j]

\* C29: LearnFromNegative(col1, col2) never creates a pattern rule or a token
\* mapping; it changes at most the one rule of the derived pattern pair
\* (failCount + 1) and only the token mappings keyed by a token of col1 paired
\* with a token of col2 (score multiplied by 0.8, never below 0.1); every other
\* rule and token mapping, and every occurrence count, is unchanged.
C29_NegativeFrame ==
    [][\A col1 \in NameFile1Columns, col2 \in NameFile2Columns :
          LearnNameFromNegative(col1, col2) =>
             /\ NegativeRuleFrame(col1, col2)
             /\ DOMAIN tokenMappings' = DOMAIN tokenMappings
             /\ \A key \in DOMAIN tokenMappings :
                    IF key \in NegativeKeys(col1, col2)
                    THEN tokenMappings'[key] =
                             [tokenMappings[key] EXCEPT !.Score = DecayedOnce(@)]
                    ELSE tokenMappings'[key] = tokenMappings[key]]_vars

\* what holds of LearnFromNegative: the same frame, with the score of a mapping
\* decayed once for every time the nested token loops come to its key
C29_NegativeFramePerVisit ==
    [][\A col1 \in NameFile1Columns, col2 \in NameFile2Columns :
          LearnNameFromNegative(col1, col2) =>
             /\ NegativeRuleFrame(col1, col2)
             /\ DOMAIN tokenMappings' = DOMAIN tokenMappings
             /\ \A key \in DOMAIN tokenMappings :
                    tokenMappings'[key] =
                        [tokenMappings[key] EXCEPT
                            !.Score = DecayedTimes(@, Visits(col1, col2, key))]]_vars

\* the positions of the token pairs of the two names that have a mapping
KnownPairs(col1, col2) ==
    LET pairs == TokenPairs(NameTokens[col1], NameTokens[col2])
    IN  {k \in DOMAIN pairs : TokenKey(pairs[k][1], pairs[k][2]) \in DOMAIN tokenMappings}

\* sum of (score - 0.5) over the positions ks
RECURSIVE CenteredScores(_, _, _)
CenteredScores(col1, col2, ks) ==
    IF ks = {} THEN 0
    ELSE LET k     == CHOOSE x \in ks : TRUE
             pairs == TokenPairs(NameTokens[col1], NameTokens[col2])
         IN  tokenMappings[TokenKey(pairs[k][1], pairs[k][2])].Score - (One \div 2)
                 + CenteredScores(col1, col2, ks \ {k})

\* the rules for the pattern pair of the two names whose confidence is above
\* 0.7 or below 0.3
OutsideNeutralBand(col1, col2) ==
    {i \in DOMAIN patterns :
        /\ patterns[i].Pattern1 = NamePattern[col1]
        /\ patterns[i].Pattern2 = NamePattern[col2]
        /\ \/ 10 * patterns[i].Confidence[1] > 7 * patterns[i].Confidence[2]
           \/ 10 * patterns[i].Confidence[1] < 3 * patterns[i].Confidence[2]}

\* C30: in every state reachable by LearnFromPositive and LearnFromNegative,
\* GetPatternBoost(col1, col2) is in [-0.2, +0.2]; it is (confidence - 0.5) * 0.4
\* when a rule for the derived pattern pair has confidence above 0.7 or below
\* 0.3, otherwise 0.2 times the mean of (score - 0.5) over the known token
\* pairs of the two names (a pair counted once for each time the two token
\* lists form it), and 0 when there is neither such a rule nor a known pair.
C30_PatternBoost ==
    \A col1 \in NameFile1Columns, col2 \in NameFile2Columns :
        LET boost == GetNameBoost(col1, col2)
            rules == OutsideNeutralBand(col1, col2)
            known == KnownPairs(col1, col2)
        IN  /\ boost >= 0 - Pct(20)
            /\ boost <= Pct(20)
            /\ rules # {} =>
                   \A i \in rules :
                       LET c == patterns[i].Confidence
                       IN  boost = RoundDiv((2 * c[1] - c[2]) * 4 * One, 20 * c[2])
            /\ rules = {} /\ known # {} =>
                   boost = RoundDiv(2 * CenteredScores(col1, col2, known),
                                    10 * Cardinality(known))
            /\ rules = {} /\ known = {} => boost = 0

\* witness of C30: one pair is boosted by its rule, another has a rule in the
\* neutral band and is boosted by its token mappings, a third has neither
C30_Witness ==
    /\ OutsideNeutralBand(ColUserId, ColCustId) # {}
    /\ GetNameBoost(ColUserId, ColCustId) > 0
    /\ RuleIndex(patterns, NamePattern[ColFirstNameLastName], NamePattern[ColFullName]) # 0
    /\ OutsideNeutralBand(ColFirstNameLastName, ColFullName) = {}
    /\ GetNameBoost(ColFirstNameLastName, ColFullName) # 0
    /\ KnownPairs(ColUserId, ColFullName) = {}
    /\ GetNameBoost(ColUserId, ColFullName) = 0

\* a rule below 0.3 is reached as well, and its penalty is returned although
\* the token mappings of the pair are known
C30_PenaltyReached ==
    /\ OutsideNeutralBand(ColUserId, ColCustId) # {}
    /\ KnownPairs(ColUserId, ColCustId) # {}
    /\ GetNameBoost(ColUserId, ColCustId) < 0

(***************************************************************************)
(* Pattern detection                                                       *)
(***************************************************************************)
\* the rows detectPattern samples: the first min(50, rowCount)
SampledRows(rows) == 1..Min(PatternSampleSize, Len(rows))

\* the sampled rows whose cell matches the expression of name
MatchingRows(rows, colIdx, name) ==
    {i \in SampledRows(rows) :
        /\ colIdx < Len(rows[i])
        /\ MatchString(name, rows[i][colIdx + 1])}

\* C31: detectPattern returns a pattern name for a column only if at least 60%
\* of the sampled rows (the first min(50, rowCount) rows) match that pattern;
\* otherwise it returns the empty string.
C31_DominantPattern ==
    probe.fn = "detectPattern" =>
        \A k \in DOMAIN probe.results :
            probe.results[k] # "" =>
                10 * Cardinality(MatchingRows(probe.rows, probe.colIdx, probe.results[k]))
                    >= 6 * Cardinality(SampledRows(probe.rows))

\* what holds of the name detectPattern returns: it is a library pattern that
\* matches at least one sampled row and at least int(0.6 * sampleSize) of them
C31_AtLeastThreshold ==
    probe.fn = "detectPattern" =>
        \A k \in DOMAIN probe.results :
            probe.results[k] # "" =>
                LET matching == Cardinality(MatchingRows(probe.rows, probe.colIdx,
                                                         probe.results[k]))
                IN  /\ probe.results[k] \in PatternNames
                    /\ matching >= 1
                    /\ matching >= (6 * Cardinality(SampledRows(probe.rows))) \div 10

\* every sampled row of the column holds a cell that matches the phone, the
\* currency and the zipcode expression, as a 5-digit value does
AmbiguousColumn(rows, colIdx) ==
    /\ Len(rows) > 0
    /\ \A name \in {"phone", "currency", "zipcode"} :
           MatchingRows(rows, colIdx, name) = SampledRows(rows)

\* C32: detectPattern is nondeterministic.  For a column whose values match
\* more than one pattern of the library (a 5-digit value matches phone,
\* currency and zipcode) a call can return any of these names, so two runs on
\* the same column can differ, and comparing the column with itself can give
\* the pattern score 0.9 as well as 0.
C32_Nondeterministic ==
    (probe.fn = "detectPattern" /\ AmbiguousColumn(probe.rows, probe.colIdx)) =>
        /\ {"phone", "currency", "zipcode"} \subseteq detectPattern(probe.rows, probe.colIdx)
        /\ {Pct(90), 0} \subseteq patternScores(probe.rows, probe.colIdx,
                                                 probe.rows, probe.colIdx)

\* witness of C32: two runs on the same column of 5-digit values returned
\* different names
C32_Witness ==
    /\ probe.fn = "detectPattern"
    /\ AmbiguousColumn(probe.rows, probe.colIdx)
    /\ Len(probe.results) = 2
    /\ probe.results[1] # probe.results[2]
    /\ probe.results[1] # "" /\ probe.results[2] # ""

(***************************************************************************)
(* Format detection                                                        *)
(***************************************************************************)
\* C33: DetectFormat classifies a value that is not a date as "phone" only if,
\* after the formatting characters (white space, '-', '(', ')', '+', '.') are
\* stripped, what remains consists of 10 to 15 digits and nothing else.
C33_PhoneIsDigits ==
    (probe.fn = "DetectFormat" /\ probe.result = "phone") =>
        LET remains == StripFormatting(probe.value)
        IN  /\ Len(remains) \in 10..15
            /\ AllIn(remains, DigitChars)

\* what holds of a value classified as "phone": it is no date, it holds a
\* digit, and 10 to 15 characters remain after the formatting is stripped
C33_PhoneIsLength ==
    (probe.fn = "DetectFormat" /\ probe.result = "phone") =>
        /\ ~IsDate(probe.value)
        /\ \E i \in DOMAIN probe.value : probe.value[i] \in DigitChars
        /\ Len(StripFormatting(probe.value)) \in 10..15

\* values of each class are among the calls: a date with and without a time of
\* day, a phone number written with formatting, a short number
C33_ClassesReached ==
    /\ probe.fn = "DetectFormat"
    /\ probe.value = <<"(", "5", "5", "5", ")", " ", "1", "2", "3", "-", "4", "5", "6", "7">>
    /\ probe.result = "phone"
    /\ DetectFormat(<<"2", "0", "2", "4", "-", "0", "1", "-", "0", "5">>) = "date"
    /\ DetectFormat(<<"0", "2", "/", "3", "0", "/", "2", "0", "2", "4">>) # "date"
    /\ DetectFormat(<<"2", "0", "2", "4", "-", "0", "1", "-", "0", "5",
                      " ", "1", "0", ":", "3", "0", ":", "0", "0">>) = "date"
    /\ DetectFormat(<<"5", "5", "5">>) = "number, name or text"

(***************************************************************************)
(* C34.  Once the log holds an entry for (a, b), no later AddFeedback      *)
(* changes GetLearnedBoost(a, b).                                          *)
(***************************************************************************)
\* the log holds an entry for (col1, col2)
HasEntry(ms, col1, col2) ==
    \E i \in DOMAIN ms : ms[i].File1Column = col1 /\ ms[i].File2Column = col2

\* C34: GetLearnedBoost(a, b) is fixed by the earliest log entry for (a, b):
\* once feedback for (a, b) has been recorded, no later AddFeedback, for the
\* same pair with the opposite verdict or for any other pair, changes the
\* value GetLearnedBoost(a, b) returns.
C34_FirstEntryFixesBoost ==
    [][\A col1 \in QueryFile1Columns, col2 \in QueryFile2Columns :
          HasEntry(matches, col1, col2)
              => LearnedBoost(matches', corrections', col1, col2)
                     = GetLearnedBoost(col1, col2)]_vars

\* witness of C34: a pair got feedback, then another pair got feedback, then
\* the first pair got the opposite verdict, with a correction
C34_Witness ==
    /\ Len(matches) = 3
    /\ matches[1].File1Column = matches[3].File1Column
    /\ matches[1].File2Column = matches[3].File2Column
    /\ matches[1].IsCorrect
    /\ ~matches[3].IsCorrect
    /\ matches[3].CorrectMatch # <<>>
    /\ matches[2].File1Column # matches[1].File1Column
    /\ GetLearnedBoost(matches[1].File1Column, matches[1].File2Column) = Pct(BoostCorrectPct)

(***************************************************************************)
(* C35.  Every key of the Corrections table belongs to a pair that has a   *)
(* log entry, so GetLearnedBoost never returns -0.25, whatever the column  *)
(* names.                                                                  *)
(***************************************************************************)
\* C35: in every state reachable by AddFeedback from an empty store, every
\* key of the Corrections table belongs to a pair (col1, col2) that also has
\* a log entry, so GetLearnedBoost never returns -0.25; this holds for all
\* column names, including names that contain the key separator "|".
C35_CorrectionHasEntry ==
    \A col1 \in CorrectionFile1Columns, col2 \in CorrectionFile2Columns :
        /\ CorrectionKey(col1, col2) \in DOMAIN corrections
               => HasEntry(matches, col1, col2)
        /\ GetLearnedBoost(col1, col2) # -Pct(PenaltyCorrectionPct)

\* What the code keeps: every key of the table is the key string of some
\* corrected entry of the log, and a pair the log has an entry for never
\* gets the -0.25.
C35_KeySpelledByEntry ==
    /\ \A key \in DOMAIN corrections :
          \E i \in DOMAIN matches :
              /\ CorrectionKey(matches[i].File1Column, matches[i].File2Column) = key
              /\ ~matches[i].IsCorrect
              /\ matches[i].CorrectMatch # <<>>
    /\ \A col1 \in CorrectionFile1Columns, col2 \in CorrectionFile2Columns :
          HasEntry(matches, col1, col2)
              => GetLearnedBoost(col1, col2) # -Pct(PenaltyCorrectionPct)

(***************************************************************************)
(* C36.  The rule list of the pattern learner: one rule per pattern pair,  *)
(* no empty pattern, no rule removed, every SuccessCount at least 1.       *)
(* Both Learn functions hold the learner's mutex from entry to return, so  *)
(* concurrent calls take effect one whole call after the other.            *)
(***************************************************************************)
\* the rule list as a state predicate
RuleListWellFormed(rules) ==
    /\ \A i, j \in DOMAIN rules :
          (rules[i].Pattern1 = rules[j].Pattern1 /\ rules[i].Pattern2 = rules[j].Pattern2)
              => i = j
    /\ \A i \in DOMAIN rules :
          /\ rules[i].Pattern1 # ""
          /\ rules[i].Pattern2 # ""
          /\ rules[i].SuccessCount >= 1

\* every rule of the list before the step is still there after it
RulesKept ==
    /\ Len(patterns') >= Len(patterns)
    /\ \A i \in DOMAIN patterns :
          /\ patterns'[i].Pattern1 = patterns[i].Pattern1
          /\ patterns'[i].Pattern2 = patterns[i].Pattern2

\* C36: in every state reachable by LearnFromPositive and LearnFromNegative
\* calls, the rule list holds at most one rule per (pattern1, pattern2) pair,
\* no rule has an empty pattern1 or pattern2, no rule is ever removed, and
\* every rule has successCount >= 1.
C36_RuleList == [] RuleListWellFormed(patterns) /\ [][RulesKept]_vars

\* witness of C36: two rules, one of them confirmed twice and rejected once,
\* after calls on a pair with an empty pattern that created no rule
C36_Witness ==
    /\ Len(patterns) = 2
    /\ \E i \in DOMAIN patterns : patterns[i].SuccessCount = 2 /\ patterns[i].FailCount = 1
    /\ learnCount = MaxLearn
    /\ TokenKey(ColEmail, ColEmail) \in DOMAIN tokenMappings

(***************************************************************************)
(* C37.  After load() of a snapshot that parses as JSON the weights sum to *)
(* 1.0 and each is at least 0.05.                                          *)
(***************************************************************************)
WeightsSumOneAndFloor(w) ==
    /\ w.Name + w.Data + w.Pattern + w.LLM >= One - 2
    /\ w.Name + w.Data + w.Pattern + w.LLM <= One + 2
    /\ w.Name >= MinWeight /\ w.Data >= MinWeight
    /\ w.Pattern >= MinWeight /\ w.LLM >= MinWeight

\* C37: after the adaptive learner loads any snapshot that parses as JSON
\* (including one with missing or zero weight fields, such as an empty
\* object), its weights still sum to 1.0 with each weight at least 0.05, and
\* CalculateScore never runs with all-zero weights.
C37_LoadedWeightsNormalised ==
    /\ [][(Restart /\ disk[adaptiveWeightsFile].kind = "json")
             => WeightsSumOneAndFloor(weights')]_vars
    /\ [](probe.fn = "CalculateScore"
             => probe.weights # [Name |-> 0, Data |-> 0, Pattern |-> 0, LLM |-> 0])

\* What the code does: load() assigns the decoded value as it is, a missing
\* field as 0 and a missing history as the empty list.
C37_LoadedAsDecoded ==
    [][(Restart /\ disk[adaptiveWeightsFile].kind = "json")
          => /\ weights' = UnmarshalWeights(Field(disk[adaptiveWeightsFile].doc,
                                                  "weights", EmptyObject))
             /\ Len(trainingHistory') = Len(Field(disk[adaptiveWeightsFile].doc,
                                                  "history", <<>>))]_vars

\* the state the claim excludes: {} was loaded and CalculateScore of four
\* perfect scores returned 0
C37_ScoredWithZeroWeights ==
    /\ disk[adaptiveWeightsFile] = JSON(EmptyObject)
    /\ probe.fn = "CalculateScore"
    /\ probe.result = 0
    /\ weights = [Name |-> 0, Data |-> 0, Pattern |-> 0, LLM |-> 0]

====
